---------------------------- MODULE HotReloadProofs ----------------------------
(***************************************************************************)
(* Where a configuration change ends up, for any number of PATCHes,        *)
(* reloads, status requests, queries and upstreams.                        *)
(***************************************************************************)
EXTENDS HotReload, SequenceTheorems, TLAPS

k == 2 * Upstreams

\* An element that neither touches the data nor the config lock for writing.
Beside == {RLock(m) : m \in Mutexes} \cup {RUnlock(m) : m \in Mutexes}
            \cup {Lock("resolver"), Unlock("resolver"), Lock("client"), Unlock("client")}

LEMMA KIs == k \in Nat
BY HotReloadConstants DEF k

\* The handlers, element by element.
LEMMA RepeatIs ==
  /\ Repeat(AddUpstream) \in Seq(Beside) /\ Len(Repeat(AddUpstream)) = k
  /\ Repeat(FindUpstream) \in Seq(Beside) /\ Len(Repeat(FindUpstream)) = k
<1>1. ASSUME NEW a \in Beside, NEW b \in Beside
      PROVE  Repeat(<<a, b>>) \in Seq(Beside) /\ Len(Repeat(<<a, b>>)) = k
  <2> DEFINE s == <<a, b>>
             f == [i \in 1..k |-> s[((i - 1) % 2) + 1]]
  <2>1. Len(s) = 2 /\ s[1] = a /\ s[2] = b  OBVIOUS
  <2>2. Repeat(s) = f  BY <2>1, HotReloadConstants DEF Repeat, k
  <2> HIDE DEF s
  <2>3. \A i \in 1..k : f[i] \in Beside
    <3> SUFFICES ASSUME NEW i \in 1..k PROVE s[((i - 1) % 2) + 1] \in Beside  OBVIOUS
    <3>1. (i - 1) % 2 = 0 \/ (i - 1) % 2 = 1  BY KIs
    <3> QED  BY <2>1, <3>1
  <2> HIDE DEF f, Beside
  <2>4. f \in [1..k -> Beside]  BY <2>3 DEF f
  <2> QED  BY <2>2, <2>4, KIs DEF s
<1>2. Lock("client") \in Beside /\ Unlock("client") \in Beside  BY DEF Beside
<1>3. RLock("client") \in Beside /\ RUnlock("client") \in Beside  BY DEF Beside, Mutexes
<1> HIDE DEF Beside
<1> QED  BY <1>1, <1>2, <1>3 DEF AddUpstream, FindUpstream

LEMMA Plainly ==
  /\ \A m \in Mutexes : RLock(m) \in Beside /\ RUnlock(m) \in Beside
  /\ Lock("resolver") \in Beside /\ Unlock("resolver") \in Beside
BY DEF Beside

\* z is s, of length m, and behind it t, of length n.
Apart(S, s, m, t, n) == s \in Seq(S) /\ Len(s) = m /\ m \in Nat /\ t \in Seq(S) /\ Len(t) = n /\ n \in Nat
Join(S, z, s, m, t, n) ==
  /\ z \in Seq(S) /\ Len(z) = m + n
  /\ \A i \in 1..m : z[i] = s[i]
  /\ \A i \in 1..n : z[m + i] = t[i]

LEMMA Joined ==
  ASSUME NEW S, NEW s, NEW m, NEW t, NEW n, Apart(S, s, m, t, n)
  PROVE  Join(S, s \o t, s, m, t, n)
<1>0. s \in Seq(S) /\ Len(s) = m /\ m \in Nat /\ t \in Seq(S) /\ Len(t) = n /\ n \in Nat  BY DEF Apart
<1>1. /\ s \o t \in Seq(S) /\ Len(s \o t) = m + n
      /\ \A i \in 1..(m + n) : (s \o t)[i] = IF i <= m THEN s[i] ELSE t[i - m]
  BY <1>0, ConcatProperties
<1>2. \A i \in 1..m : (s \o t)[i] = s[i]  BY <1>0, <1>1
<1>3. ASSUME NEW i \in 1..n PROVE (s \o t)[m + i] = t[i]
  <2>1. m + i \in 1..(m + n) /\ ~(m + i <= m) /\ (m + i) - m = i  BY <1>0
  <2> QED  BY <1>1, <2>1
<1> QED  BY <1>1, <1>2, <1>3 DEF Join

LEMMA UpdateConfigIs ==
  /\ UpdateConfig \in Seq(Beside \cup {Do("install")}) /\ Len(UpdateConfig) = k + 5
  /\ UpdateConfig[2] = Do("install")
  /\ \A i \in 1..(k + 5) : i # 2 => UpdateConfig[i] \in Beside
<1> DEFINE r == Repeat(AddUpstream)
           b == RLock("resolver")
           e == RUnlock("resolver")
           l == Lock("resolver")
           n == Do("install")
           u == Unlock("resolver")
<1>1. r \in Seq(Beside) /\ Len(r) = k  BY RepeatIs
<1>2. b \in Beside /\ e \in Beside /\ l \in Beside /\ u \in Beside  BY Plainly DEF Mutexes
<1>3. UpdateConfig = <<l, n, u>> \o (<<b>> \o r \o <<e>>)  BY DEF UpdateConfig, InitUpstreams
<1> HIDE DEF r, b, e, l, n, u, Beside
<1>4. <<b>> \o r \o <<e>> \in Seq(Beside) /\ Len(<<b>> \o r \o <<e>>) = k + 2  BY <1>1, <1>2, KIs
<1> DEFINE v == <<b>> \o r \o <<e>>
<1> HIDE DEF v
<1>5. v \in Seq(Beside) /\ Len(v) = k + 2 /\ UpdateConfig = <<l, n, u>> \o v  BY <1>3, <1>4 DEF v
<1>6. \A i \in 1..(k + 2) : v[i] \in Beside  BY <1>5
<1>7. Len(UpdateConfig) = k + 5 /\ UpdateConfig[1] = l /\ UpdateConfig[2] = n /\ UpdateConfig[3] = u
      /\ \A i \in 4..(k + 5) : UpdateConfig[i] = v[i - 3]
  BY <1>5, KIs
<1>8. \A i \in 1..(k + 5) : i # 2 => UpdateConfig[i] \in Beside
  <2> SUFFICES ASSUME NEW i \in 1..(k + 5), i # 2 PROVE UpdateConfig[i] \in Beside  OBVIOUS
  <2>1. CASE i \in {1, 3}  BY <1>2, <1>7, <2>1
  <2>2. CASE i > 3
    <3>1. i \in 4..(k + 5) /\ i - 3 \in 1..(k + 2)  BY <2>2, KIs
    <3> QED  BY <1>6, <1>7, <3>1
  <2> QED  BY <2>1, <2>2, KIs
<1>9. UpdateConfig \in Seq(Beside \cup {n})  BY <1>2, <1>5
<1> QED  BY <1>7, <1>8, <1>9 DEF n

LEMMA PatchIs ==
  /\ Len(Patch) = 2 * k + 24
  /\ Patch[4] = Lock("config") /\ Patch[5] = Do("patch") /\ Patch[6] = Do("point")
  /\ Patch[k + 12] = Unlock("config") /\ Patch[k + 16] = Do("write")
  /\ Patch[8] = Do("install") /\ Patch[k + 21] = Do("install")
  /\ Patch[2] = Do("copy") /\ Patch[k + 14] = Do("copy") /\ Patch[k + 18] = Do("copy")
  /\ \A i \in 1..(2 * k + 24) :
       i \notin {2, 4, 5, 6, 8, k + 12, k + 14, k + 16, k + 18, k + 21} => Patch[i] \in Beside
<1> DEFINE rl == RLock("config")
           ru == RUnlock("config")
           c == Do("copy")
           lk == Lock("config")
           p == Do("patch")
           q == Do("point")
           ul == Unlock("config")
           wr == Do("write")
           w == UpdateConfig
           E == Beside \cup {c, lk, p, q, ul, wr, Do("install")}
<1>1. /\ w \in Seq(E) /\ Len(w) = k + 5 /\ w[2] = Do("install")
      /\ \A i \in 1..(k + 5) : i # 2 => w[i] \in Beside
  <2>1. w \in Seq(Beside \cup {Do("install")})  BY UpdateConfigIs
  <2>2. Beside \cup {Do("install")} \subseteq E  OBVIOUS
  <2> HIDE DEF E, w, Beside
  <2>3. w \in Seq(E)  BY <2>1, <2>2
  <2> USE DEF w
  <2> QED  BY <2>3, UpdateConfigIs
<1>2. rl \in Beside /\ ru \in Beside  BY Plainly DEF Mutexes
<1>3. Patch = <<rl, c, ru>> \o (<<lk, p, q>> \o w \o <<ul>>) \o <<rl, c, ru, wr>> \o <<rl, c, ru>> \o w
  BY DEF Patch, Authenticate, GetConfig, Update, Save
<1>4. {rl, ru, c, lk, p, q, ul, wr} \subseteq E  BY <1>2
<1> HIDE DEF rl, ru, c, lk, p, q, ul, wr, w, E, Beside
<1> DEFINE a == <<rl, c, ru>>
           d == <<lk, p, q>>
           f == <<ul>>
           g == <<rl, c, ru, wr>>
           x1 == d \o w
           x2 == x1 \o f
           x3 == a \o x2
           x4 == x3 \o g
           x5 == x4 \o a
<1>5. Patch = x5 \o w  BY <1>3
<1>6. /\ a \in Seq(E) /\ Len(a) = 3 /\ a[1] = rl /\ a[2] = c /\ a[3] = ru
      /\ d \in Seq(E) /\ Len(d) = 3 /\ d[1] = lk /\ d[2] = p /\ d[3] = q
      /\ f \in Seq(E) /\ Len(f) = 1 /\ f[1] = ul
      /\ g \in Seq(E) /\ Len(g) = 4 /\ g[1] = rl /\ g[2] = c /\ g[3] = ru /\ g[4] = wr
  BY <1>4
<1> HIDE DEF a, d, f, g
<1>71. Join(E, x1, d, 3, w, k + 5)
  <2>1. Apart(E, d, 3, w, k + 5)  BY <1>1, <1>6, KIs DEF Apart, Join
  <2> QED  BY <2>1, Joined
<1> HIDE DEF x1
<1>72. Join(E, x2, x1, k + 8, f, 1)
  <2>1. Apart(E, x1, k + 8, f, 1)  BY <1>71, <1>6, KIs DEF Apart, Join
  <2> QED  BY <2>1, Joined
<1> HIDE DEF x2
<1>73. Join(E, x3, a, 3, x2, k + 9)
  <2>1. Apart(E, a, 3, x2, k + 9)  BY <1>72, <1>6, KIs DEF Apart, Join
  <2> QED  BY <2>1, Joined
<1> HIDE DEF x3
<1>74. Join(E, x4, x3, k + 12, g, 4)
  <2>1. Apart(E, x3, k + 12, g, 4)  BY <1>73, <1>6, KIs DEF Apart, Join
  <2> QED  BY <2>1, Joined
<1> HIDE DEF x4
<1>75. Join(E, x5, x4, k + 16, a, 3)
  <2>1. Apart(E, x4, k + 16, a, 3)  BY <1>74, <1>6, KIs DEF Apart, Join
  <2> QED  BY <2>1, Joined
<1> HIDE DEF x5
<1>76. Join(E, Patch, x5, k + 19, w, k + 5)
  <2>1. Apart(E, x5, k + 19, w, k + 5)  BY <1>75, <1>1, KIs DEF Apart, Join
  <2> QED  BY <2>1, Joined, <1>5
<1> USE DEF Join
<1>7. Len(Patch) = 2 * k + 24  BY <1>76, KIs
<1>81. \A i \in 1..(k + 12) : Patch[i] = x3[i]
  <2> SUFFICES ASSUME NEW i \in 1..(k + 12) PROVE Patch[i] = x3[i]  OBVIOUS
  <2>1. i \in 1..(k + 16) /\ i \in 1..(k + 19)  BY KIs
  <2>2. Patch[i] = x5[i]  BY <1>76, <2>1
  <2>3. x5[i] = x4[i]  BY <1>75, <2>1
  <2>4. x4[i] = x3[i]  BY <1>74
  <2> QED  BY <2>2, <2>3, <2>4
<1>82. \A i \in 1..(k + 8) : Patch[3 + i] = x1[i]
  <2> SUFFICES ASSUME NEW i \in 1..(k + 8) PROVE Patch[3 + i] = x1[i]  OBVIOUS
  <2>1. 3 + i \in 1..(k + 12) /\ i \in 1..(k + 9)  BY KIs
  <2> QED  BY <1>72, <1>73, <1>81, <2>1
<1>83. \A i \in 1..(k + 5) : Patch[6 + i] = w[i]
  <2> SUFFICES ASSUME NEW i \in 1..(k + 5) PROVE Patch[6 + i] = w[i]  OBVIOUS
  <2>1. 3 + i \in 1..(k + 8) /\ 3 + (3 + i) = 6 + i  BY KIs
  <2>2. Patch[3 + (3 + i)] = x1[3 + i]  BY <1>82, <2>1
  <2> QED  BY <1>71, <2>1, <2>2
<1>8. /\ \A i \in 7..(k + 11) : Patch[i] = w[i - 6]
      /\ \A i \in (k + 20)..(2 * k + 24) : Patch[i] = w[i - (k + 19)]
  <2>1. ASSUME NEW i \in 7..(k + 11) PROVE Patch[i] = w[i - 6]
    <3>1. i - 6 \in 1..(k + 5) /\ 6 + (i - 6) = i  BY KIs
    <3> QED  BY <1>83, <3>1
  <2>2. ASSUME NEW i \in (k + 20)..(2 * k + 24) PROVE Patch[i] = w[i - (k + 19)]
    <3>1. i - (k + 19) \in 1..(k + 5) /\ (k + 19) + (i - (k + 19)) = i  BY KIs
    <3> QED  BY <1>76, <3>1
  <2> QED  BY <2>1, <2>2
<1>9. /\ Patch[1] = rl /\ Patch[2] = c /\ Patch[3] = ru /\ Patch[4] = lk /\ Patch[5] = p /\ Patch[6] = q
      /\ Patch[k + 12] = ul /\ Patch[k + 13] = rl /\ Patch[k + 14] = c /\ Patch[k + 15] = ru
      /\ Patch[k + 16] = wr /\ Patch[k + 17] = rl /\ Patch[k + 18] = c /\ Patch[k + 19] = ru
  <2>1. Patch[1] = a[1] /\ Patch[2] = a[2] /\ Patch[3] = a[3]  BY <1>73, <1>81, KIs
  <2>2. Patch[4] = d[1] /\ Patch[5] = d[2] /\ Patch[6] = d[3]
    <3>1. 1 \in 1..(k + 8) /\ 2 \in 1..(k + 8) /\ 3 \in 1..(k + 8)  BY KIs
    <3>2. Patch[3 + 1] = x1[1] /\ Patch[3 + 2] = x1[2] /\ Patch[3 + 3] = x1[3]  BY <1>82, <3>1
    <3> QED  BY <1>71, <3>2
  <2>3. Patch[k + 12] = f[1]
    <3>1. k + 9 \in 1..(k + 9) /\ 3 + (k + 9) = k + 12 /\ (k + 8) + 1 = k + 9 /\ k + 12 \in 1..(k + 12)  BY KIs
    <3>2. x3[k + 12] = x2[k + 9]  BY <1>73, <3>1
    <3>3. x2[(k + 8) + 1] = f[1]  BY <1>72
    <3> QED  BY <1>81, <3>1, <3>2, <3>3
  <2>4. Patch[k + 13] = g[1] /\ Patch[k + 14] = g[2] /\ Patch[k + 15] = g[3] /\ Patch[k + 16] = g[4]
    <3>1. ASSUME NEW i \in 1..4 PROVE Patch[(k + 12) + i] = g[i]
      <4>1. (k + 12) + i \in 1..(k + 16) /\ (k + 12) + i \in 1..(k + 19)  BY KIs
      <4> QED  BY <1>74, <1>75, <1>76, <4>1
    <3>2. (k + 12) + 1 = k + 13 /\ (k + 12) + 2 = k + 14 /\ (k + 12) + 3 = k + 15 /\ (k + 12) + 4 = k + 16  BY KIs
    <3>3. Patch[(k + 12) + 1] = g[1] /\ Patch[(k + 12) + 2] = g[2] /\ Patch[(k + 12) + 3] = g[3] /\ Patch[(k + 12) + 4] = g[4]
      BY <3>1
    <3> QED  BY <3>2, <3>3
  <2>5. Patch[k + 17] = a[1] /\ Patch[k + 18] = a[2] /\ Patch[k + 19] = a[3]
    <3>1. ASSUME NEW i \in 1..3 PROVE Patch[(k + 16) + i] = a[i]
      <4>1. (k + 16) + i \in 1..(k + 19)  BY KIs
      <4> QED  BY <1>75, <1>76, <4>1
    <3>2. (k + 16) + 1 = k + 17 /\ (k + 16) + 2 = k + 18 /\ (k + 16) + 3 = k + 19  BY KIs
    <3>3. Patch[(k + 16) + 1] = a[1] /\ Patch[(k + 16) + 2] = a[2] /\ Patch[(k + 16) + 3] = a[3]  BY <3>1
    <3> QED  BY <3>2, <3>3
  <2> QED  BY <1>6, <2>1, <2>2, <2>3, <2>4, <2>5
<1>10. Patch[8] = Do("install") /\ Patch[k + 21] = Do("install")  BY <1>1, <1>8, KIs
<1>11. ASSUME NEW i \in 1..(2 * k + 24),
              i \notin {2, 4, 5, 6, 8, k + 12, k + 14, k + 16, k + 18, k + 21}
       PROVE  Patch[i] \in Beside
  <2>1. CASE i \in {1, 3, k + 13, k + 15, k + 17, k + 19}  BY <1>2, <1>9, <2>1
  <2>2. CASE i \in 7..(k + 11)
    <3>1. i - 6 \in 1..(k + 5) /\ i - 6 # 2  BY <1>11, <2>2, KIs
    <3> QED  BY <1>1, <1>8, <2>2, <3>1
  <2>3. CASE i \in (k + 20)..(2 * k + 24)
    <3>1. i - (k + 19) \in 1..(k + 5) /\ i - (k + 19) # 2  BY <1>11, <2>3, KIs
    <3> QED  BY <1>1, <1>8, <2>3, <3>1
  <2> QED  BY <1>11, <2>1, <2>2, <2>3, KIs
<1> USE DEF c, lk, p, q, ul, wr
<1>12. /\ Patch[4] = Lock("config") /\ Patch[5] = Do("patch") /\ Patch[6] = Do("point")
       /\ Patch[k + 12] = Unlock("config") /\ Patch[k + 16] = Do("write")
       /\ Patch[2] = Do("copy") /\ Patch[k + 14] = Do("copy") /\ Patch[k + 18] = Do("copy")
  BY <1>9
<1> QED  BY <1>7, <1>10, <1>11, <1>12

LEMMA ReloadIs ==
  /\ Len(Reload) = k + 16
  /\ Reload[4] = Lock("config") /\ Reload[5] = Do("load") /\ Reload[7] = Do("write") /\ Reload[8] = Unlock("config")
  /\ Reload[2] = Do("copy") /\ Reload[6] = Do("copy") /\ Reload[10] = Do("point") /\ Reload[13] = Do("install")
  /\ \A i \in 1..(k + 16) : i \notin {2, 4, 5, 6, 7, 8, 10, 13} => Reload[i] \in Beside
<1> DEFINE rl == RLock("config")
           ru == RUnlock("config")
           c == Do("copy")
           lk == Lock("config")
           p == Do("load")
           q == Do("point")
           ul == Unlock("config")
           wr == Do("write")
           w == UpdateConfig
           E == Beside \cup {c, lk, p, q, ul, wr, Do("install")}
<1>1. /\ w \in Seq(E) /\ Len(w) = k + 5 /\ w[2] = Do("install")
      /\ \A i \in 1..(k + 5) : i # 2 => w[i] \in Beside
  <2>1. w \in Seq(Beside \cup {Do("install")})  BY UpdateConfigIs
  <2>2. Beside \cup {Do("install")} \subseteq E  OBVIOUS
  <2> HIDE DEF E, w, Beside
  <2>3. w \in Seq(E)  BY <2>1, <2>2
  <2> USE DEF w
  <2> QED  BY <2>3, UpdateConfigIs
<1>2. rl \in Beside /\ ru \in Beside  BY Plainly DEF Mutexes
<1>3. Reload = <<rl, c, ru>> \o (<<lk, p, c, wr, ul>> \o <<rl, q, ru>> \o w)
  BY DEF Reload, Authenticate, GetConfig, ReloadManager, Load
<1>4. {rl, ru, c, lk, p, q, ul, wr} \subseteq E  BY <1>2
<1> HIDE DEF rl, ru, c, lk, p, q, ul, wr, w, E, Beside
<1> DEFINE a == <<rl, c, ru>>
           d == <<lk, p, c, wr, ul>> \o <<rl, q, ru>>
           x1 == d \o w
<1>5. Reload = a \o x1  BY <1>3
<1>6. /\ a \in Seq(E) /\ Len(a) = 3 /\ a[1] = rl /\ a[2] = c /\ a[3] = ru
      /\ d \in Seq(E) /\ Len(d) = 8 /\ d[1] = lk /\ d[2] = p /\ d[3] = c /\ d[4] = wr /\ d[5] = ul
      /\ d[6] = rl /\ d[7] = q /\ d[8] = ru
  BY <1>4
<1> HIDE DEF a, d
<1>71. Join(E, x1, d, 8, w, k + 5)
  <2>1. Apart(E, d, 8, w, k + 5)  BY <1>1, <1>6, KIs DEF Apart, Join
  <2> QED  BY <2>1, Joined
<1> HIDE DEF x1
<1>72. Join(E, Reload, a, 3, x1, k + 13)
  <2>1. Apart(E, a, 3, x1, k + 13)  BY <1>71, <1>6, KIs DEF Apart, Join
  <2> QED  BY <2>1, Joined, <1>5
<1> USE DEF Join
<1>7. Len(Reload) = k + 16 /\ \A i \in 12..(k + 16) : Reload[i] = w[i - 11]
  <2>1. ASSUME NEW i \in 12..(k + 16) PROVE Reload[i] = w[i - 11]
    <3>1. i - 11 \in 1..(k + 5) /\ i - 3 \in 1..(k + 13) /\ 3 + (i - 3) = i /\ 8 + (i - 11) = i - 3  BY KIs
    <3>2. Reload[3 + (i - 3)] = x1[i - 3] /\ x1[8 + (i - 11)] = w[i - 11]  BY <1>71, <1>72, <3>1
    <3> QED  BY <3>1, <3>2
  <2> QED  BY <1>72, <2>1, KIs
<1>8. /\ Reload[1] = rl /\ Reload[2] = c /\ Reload[3] = ru /\ Reload[4] = lk /\ Reload[5] = p /\ Reload[6] = c
      /\ Reload[7] = wr /\ Reload[8] = ul /\ Reload[9] = rl /\ Reload[10] = q /\ Reload[11] = ru
  <2>1. ASSUME NEW i \in 1..8 PROVE Reload[3 + i] = d[i]
    <3>1. i \in 1..(k + 13)  BY KIs
    <3> QED  BY <1>71, <1>72, <3>1
  <2>2. /\ Reload[3 + 1] = d[1] /\ Reload[3 + 2] = d[2] /\ Reload[3 + 3] = d[3] /\ Reload[3 + 4] = d[4]
        /\ Reload[3 + 5] = d[5] /\ Reload[3 + 6] = d[6] /\ Reload[3 + 7] = d[7] /\ Reload[3 + 8] = d[8]
    BY <2>1
  <2> QED  BY <1>6, <1>72, <2>2
<1>9. Reload[13] = Do("install")  BY <1>1, <1>7, KIs
<1>10. ASSUME NEW i \in 1..(k + 16), i \notin {2, 4, 5, 6, 7, 8, 10, 13} PROVE Reload[i] \in Beside
  <2>1. CASE i \in {1, 3, 9, 11}  BY <1>2, <1>8, <2>1
  <2>2. CASE i \in 12..(k + 16)
    <3>1. i - 11 \in 1..(k + 5) /\ i - 11 # 2  BY <1>10, <2>2, KIs
    <3> QED  BY <1>1, <1>7, <2>2, <3>1
  <2> QED  BY <1>10, <2>1, <2>2, KIs
<1> USE DEF c, lk, p, q, ul, wr
<1>11. /\ Reload[4] = Lock("config") /\ Reload[5] = Do("load") /\ Reload[7] = Do("write")
       /\ Reload[8] = Unlock("config") /\ Reload[2] = Do("copy") /\ Reload[6] = Do("copy") /\ Reload[10] = Do("point")
  BY <1>8
<1> QED  BY <1>7, <1>9, <1>10, <1>11

\* A status request and a query change nothing.
LEMMA StatusIs == Status \in Seq(Beside \cup {Do("copy")}) /\ Query \in Seq(Beside)
<1> DEFINE r == Repeat(FindUpstream)
           rl == RLock("config")
           ru == RUnlock("config")
           bl == RLock("client")
           bu == RUnlock("client")
           sl == RLock("resolver")
           su == RUnlock("resolver")
           c == Do("copy")
           E == Beside \cup {c}
<1>1. r \in Seq(Beside)  BY RepeatIs
<1>2. {rl, ru, bl, bu, sl, su} \subseteq Beside  BY Plainly DEF Mutexes
<1>3. Status = <<rl, c, ru>> \o (<<bl>> \o r \o <<bu>>) \o <<rl, c, ru>>
  BY DEF Status, Authenticate, GetConfig, UpstreamStatuses
<1>4. Query = <<sl, su>> \o <<sl, su>> \o <<sl, su>> \o <<bl, bu>>  BY DEF Query, ReadCfg, FindUpstream
<1>5. {rl, ru, bl, bu, c} \subseteq E /\ Beside \subseteq E  BY <1>2
<1> HIDE DEF r, rl, ru, bl, bu, sl, su, c, E, Beside
<1>6. r \in Seq(E)  BY <1>1, <1>5
<1>7. Status \in Seq(E)  BY <1>3, <1>5, <1>6
<1>8. Query \in Seq(Beside)  BY <1>2, <1>4
<1> QED  BY <1>7, <1>8 DEF E, c
-----------------------------------------------------------------------------
\* Where a goroutine has in its hand what it is going to install, ...
Holding(t) == \/ t \in Patches /\ pc[t] \in {7, 8} \cup (k + 19)..(k + 21)
              \/ t \in Reloads /\ pc[t] \in 11..13

\* ... where it has changed m.config and the resolver may not know yet, ...
Pending(t) == \/ t \in Patches /\ pc[t] \in 6..8
              \/ t \in Reloads /\ pc[t] \in 6..13

\* ... and where it has the config lock.
Inside(t) == \/ t \in Patches /\ pc[t] \in 5..(k + 12)
             \/ t \in Reloads /\ pc[t] \in 5..8

Locks == [readers : [Threads -> Int], announced : Threads \cup {NoThread}, held : BOOLEAN]
Refs == [live : BOOLEAN, version : Nat]

Shape == /\ mutex \in [Mutexes -> Locks] /\ pc \in [Threads -> Nat \ {0}] /\ got \in [Threads -> Refs]
         /\ latest \in Nat /\ config \in Nat /\ file \in Nat /\ resolver \in Refs
         /\ rejected \in BOOLEAN /\ overtaken \in BOOLEAN

Guarded == \A t \in Threads : Inside(t) => Owns(t)

\* What a goroutine is going to install is what m.config says, and the resolver has
\* that too or somebody who changed m.config is still going to install.
Fresh == \A t \in Threads : Holding(t) => Seen(got[t]) = config
Owed == Seen(resolver) = config \/ \E t \in Threads : Pending(t)
Delivered == ~rejected /\ ~overtaken => Fresh /\ Owed

Reaches == Shape /\ Guarded /\ Delivered

\* What the next element is, wherever a goroutine stands.
Ended == <<"Returned", 0>>
Plain == Beside \cup {Ended}

StandsPatch(t) ==
  /\ pc[t] \in {2, k + 14, k + 18} => Op(t) = Do("copy")
  /\ pc[t] = 4 => Op(t) = Lock("config")
  /\ pc[t] = 5 => Op(t) = Do("patch")
  /\ pc[t] = 6 => Op(t) = Do("point")
  /\ pc[t] \in {8, k + 21} => Op(t) = Do("install")
  /\ pc[t] = k + 12 => Op(t) = Unlock("config")
  /\ pc[t] = k + 16 => Op(t) = Do("write")
  /\ pc[t] \notin {2, 4, 5, 6, 8, k + 12, k + 14, k + 16, k + 18, k + 21} => Op(t) \in Plain

StandsReload(t) ==
  /\ pc[t] \in {2, 6} => Op(t) = Do("copy")
  /\ pc[t] = 4 => Op(t) = Lock("config")
  /\ pc[t] = 5 => Op(t) = Do("load")
  /\ pc[t] = 7 => Op(t) = Do("write")
  /\ pc[t] = 8 => Op(t) = Unlock("config")
  /\ pc[t] = 10 => Op(t) = Do("point")
  /\ pc[t] = 13 => Op(t) = Do("install")
  /\ pc[t] \notin {2, 4, 5, 6, 7, 8, 10, 13} => Op(t) \in Plain

LEMMA HandlerIs ==
  /\ \A t \in Patches : Handler(t) = Patch
  /\ \A t \in Reloads : Handler(t) = Reload
  /\ \A t \in Statuses : Handler(t) = Status
  /\ \A t \in Queries : Handler(t) = Query
BY HotReloadConstants DEF Handler

LEMMA PatchStands ==
  ASSUME NEW t \in Patches, pc[t] \in Nat \ {0}
  PROVE  StandsPatch(t)
<1>1. Op(t) = IF pc[t] > 2 * k + 24 THEN Ended ELSE Patch[pc[t]]  BY HandlerIs, PatchIs DEF Op, Returned, Ended
<1> DEFINE i == pc[t]
<1>2. i \in Nat /\ i # 0 /\ Op(t) = IF i > 2 * k + 24 THEN Ended ELSE Patch[i]  BY <1>1
<1> HIDE DEF i
<1>3. i <= 2 * k + 24 => i \in 1..(2 * k + 24)  BY <1>2, KIs
<1>4. /\ i \in {2, k + 14, k + 18} => Op(t) = Do("copy")
      /\ i = 4 => Op(t) = Lock("config")
      /\ i = 5 => Op(t) = Do("patch")
      /\ i = 6 => Op(t) = Do("point")
      /\ i \in {8, k + 21} => Op(t) = Do("install")
      /\ i = k + 12 => Op(t) = Unlock("config")
      /\ i = k + 16 => Op(t) = Do("write")
  <2>1. i \in {2, 4, 5, 6, 8, k + 12, k + 14, k + 16, k + 18, k + 21} => ~(i > 2 * k + 24)  BY KIs
  <2>2. i \in {2, 4, 5, 6, 8, k + 12, k + 14, k + 16, k + 18, k + 21} => Op(t) = Patch[i]  BY <1>2, <2>1
  <2> HIDE DEF Do, Lock, Unlock
  <2> QED  BY <2>2, PatchIs
<1>5. i \notin {2, 4, 5, 6, 8, k + 12, k + 14, k + 16, k + 18, k + 21} => Op(t) \in Plain
  <2>1. CASE i > 2 * k + 24  BY <1>2, <2>1 DEF Plain
  <2>2. CASE i <= 2 * k + 24
    <3>1. Op(t) = Patch[i]  BY <1>2, <2>2, KIs
    <3>2. i \in 1..(2 * k + 24)  BY <1>3, <2>2
    <3> QED  BY <3>1, <3>2, PatchIs DEF Plain
  <2> QED  BY <1>2, <2>1, <2>2, KIs
<1> QED  BY <1>4, <1>5 DEF StandsPatch, i

LEMMA ReloadStands ==
  ASSUME NEW t \in Reloads, pc[t] \in Nat \ {0}
  PROVE  StandsReload(t)
<1>1. Op(t) = IF pc[t] > k + 16 THEN Ended ELSE Reload[pc[t]]  BY HandlerIs, ReloadIs DEF Op, Returned, Ended
<1> DEFINE i == pc[t]
<1>2. i \in Nat /\ i # 0 /\ Op(t) = IF i > k + 16 THEN Ended ELSE Reload[i]  BY <1>1
<1> HIDE DEF i
<1>3. i <= k + 16 => i \in 1..(k + 16)  BY <1>2, KIs
<1>4. /\ i \in {2, 6} => Op(t) = Do("copy")
      /\ i = 4 => Op(t) = Lock("config")
      /\ i = 5 => Op(t) = Do("load")
      /\ i = 7 => Op(t) = Do("write")
      /\ i = 8 => Op(t) = Unlock("config")
      /\ i = 10 => Op(t) = Do("point")
      /\ i = 13 => Op(t) = Do("install")
  <2>1. i \in {2, 4, 5, 6, 7, 8, 10, 13} => ~(i > k + 16)  BY KIs
  <2>2. i \in {2, 4, 5, 6, 7, 8, 10, 13} => Op(t) = Reload[i]  BY <1>2, <2>1
  <2> HIDE DEF Do, Lock, Unlock
  <2> QED  BY <2>2, ReloadIs
<1>5. i \notin {2, 4, 5, 6, 7, 8, 10, 13} => Op(t) \in Plain
  <2>1. CASE i > k + 16  BY <1>2, <2>1 DEF Plain
  <2>2. CASE i <= k + 16
    <3>1. Op(t) = Reload[i]  BY <1>2, <2>2, KIs
    <3>2. i \in 1..(k + 16)  BY <1>3, <2>2
    <3> QED  BY <3>1, <3>2, ReloadIs DEF Plain
  <2> QED  BY <1>2, <2>1, <2>2, KIs
<1> QED  BY <1>4, <1>5 DEF StandsReload, i

LEMMA OtherStands ==
  ASSUME NEW t \in Statuses \cup Queries, pc[t] \in Nat \ {0}
  PROVE  Op(t) \in Plain \cup {Do("copy")}
<1> DEFINE E == Beside \cup {Do("copy")}
           h == Handler(t)
           i == pc[t]
<1>1. h \in Seq(E)
  <2>1. Beside \subseteq E  OBVIOUS
  <2>2. Status \in Seq(E) /\ Query \in Seq(Beside)  BY StatusIs
  <2> HIDE DEF E
  <2>3. Query \in Seq(E)  BY <2>1, <2>2
  <2> QED  BY <2>2, <2>3, HandlerIs
<1>2. i \in Nat /\ i # 0 /\ Op(t) = IF i > Len(h) THEN Ended ELSE h[i]  BY DEF Op, Returned, Ended
<1>3. E \subseteq Plain \cup {Do("copy")} /\ Ended \in Plain  BY DEF Plain
<1> HIDE DEF E, h, i
<1>4. Len(h) \in Nat /\ (i <= Len(h) => h[i] \in E)  BY <1>1, <1>2
<1> QED  BY <1>2, <1>3, <1>4

\* The elements are all different.
LEMMA ElementsDiffer ==
  /\ \A o \in Plain : \A x : o # Do(x)
  /\ \A o \in Plain : (o[1] \in {"Lock", "Unlock"} => o[2] # "config")
  /\ \A x : \A y \in STRING : Do(x)[1] \notin {"Lock", "Unlock"} /\ Lock(y) # Do(x) /\ Unlock(y) # Do(x)
  /\ Lock("config")[1] # "Unlock" /\ Unlock("config")[1] # "Lock"
  /\ \A x, y \in STRING : x # y => Do(x) # Do(y)
<1>1. \A o \in Plain : \A x : o # Do(x)  BY DEF Plain, Ended, Beside, Do, RLock, RUnlock, Lock, Unlock
<1>2. \A o \in Plain : (o[1] \in {"Lock", "Unlock"} => o[2] # "config")
  BY DEF Plain, Ended, Beside, Mutexes, RLock, RUnlock, Lock, Unlock
<1>3. \A x : \A y \in STRING : Do(x)[1] \notin {"Lock", "Unlock"} /\ Lock(y) # Do(x) /\ Unlock(y) # Do(x)
  BY DEF Do, Lock, Unlock
<1>4. Lock("config")[1] # "Unlock" /\ Unlock("config")[1] # "Lock"  BY DEF Lock, Unlock
<1>5. \A x, y \in STRING : x # y => Do(x) # Do(y)  BY DEF Do
<1> QED  BY <1>1, <1>2, <1>3, <1>4, <1>5

Dos == {Do("patch"), Do("load"), Do("point"), Do("install"), Do("write"), Do("copy")}
Takes(o) == o[1] = "Lock" /\ o[2] = "config"
Leaves(o) == o[1] = "Unlock" /\ o[2] = "config"

LEMMA Sorts ==
  /\ \A o \in Plain : o \notin Dos /\ ~Takes(o) /\ ~Leaves(o)
  /\ \A o \in Dos : ~Takes(o) /\ ~Leaves(o)
  /\ Lock("config") \notin Dos /\ ~Leaves(Lock("config"))
  /\ Unlock("config") \notin Dos /\ ~Takes(Unlock("config"))
  /\ Do("patch") \notin {Do("load"), Do("point"), Do("install"), Do("write"), Do("copy")}
  /\ Do("load") \notin {Do("point"), Do("install"), Do("write"), Do("copy")}
  /\ Do("point") \notin {Do("install"), Do("write"), Do("copy")}
  /\ Do("install") \notin {Do("write"), Do("copy")} /\ Do("write") # Do("copy")
<1>1. \A o \in Plain : o \notin Dos  BY ElementsDiffer DEF Dos
<1>2. \A o \in Plain : ~Takes(o) /\ ~Leaves(o)  BY ElementsDiffer DEF Takes, Leaves
<1>3. \A o \in Dos : ~Takes(o) /\ ~Leaves(o)  BY DEF Dos, Do, Takes, Leaves
<1>4. Lock("config") \notin Dos /\ ~Leaves(Lock("config"))  BY DEF Dos, Do, Lock, Leaves
<1>5. Unlock("config") \notin Dos /\ ~Takes(Unlock("config"))  BY DEF Dos, Do, Unlock, Takes
<1>6. /\ Do("patch") \notin {Do("load"), Do("point"), Do("install"), Do("write"), Do("copy")}
      /\ Do("load") \notin {Do("point"), Do("install"), Do("write"), Do("copy")}
      /\ Do("point") \notin {Do("install"), Do("write"), Do("copy")}
      /\ Do("install") \notin {Do("write"), Do("copy")} /\ Do("write") # Do("copy")
  BY DEF Do
<1> QED  BY <1>1, <1>2, <1>3, <1>4, <1>5, <1>6

\* Who can be at an element that matters, and where.
LEMMA WhoStands ==
  ASSUME Shape, NEW t \in Threads
  PROVE  /\ Op(t) = Do("patch") => t \in Patches /\ pc[t] = 5
         /\ Op(t) = Do("load") => t \in Reloads /\ pc[t] = 5
         /\ Op(t) = Do("point") => (t \in Patches /\ pc[t] = 6) \/ (t \in Reloads /\ pc[t] = 10)
         /\ Op(t) = Do("install") => (t \in Patches /\ pc[t] \in {8, k + 21}) \/ (t \in Reloads /\ pc[t] = 13)
         /\ Op(t) = Do("write") => (t \in Patches /\ pc[t] = k + 16) \/ (t \in Reloads /\ pc[t] = 7)
         /\ Op(t) = Do("copy") => \/ t \in Patches /\ pc[t] \in {2, k + 14, k + 18}
                                  \/ t \in Reloads /\ pc[t] \in {2, 6}
                                  \/ t \in Statuses \cup Queries
         /\ Takes(Op(t)) => t \in Patches \cup Reloads /\ pc[t] = 4
         /\ Leaves(Op(t)) => (t \in Patches /\ pc[t] = k + 12) \/ (t \in Reloads /\ pc[t] = 8)
<1>0. pc[t] \in Nat \ {0}  BY DEF Shape
<1>1. CASE t \in Patches
  <2>1. StandsPatch(t)  BY <1>0, <1>1, PatchStands
  <2> QED  BY <1>1, <2>1, Sorts DEF StandsPatch, Dos
<1>2. CASE t \in Reloads
  <2>1. StandsReload(t)  BY <1>0, <1>2, ReloadStands
  <2> QED  BY <1>2, <2>1, Sorts DEF StandsReload, Dos
<1>3. CASE t \in Statuses \cup Queries
  <2>1. CASE Op(t) \in Plain  BY <2>1, Sorts DEF Dos
  <2>2. CASE Op(t) = Do("copy")  BY <1>3, <2>2, Sorts DEF Dos
  <2> QED  BY <1>0, <1>3, <2>1, <2>2, OtherStands
<1> QED  BY <1>1, <1>2, <1>3, HotReloadConstants

\* The elements at which a goroutine comes to hold, to be pending, to be inside, or leaves.
LEMMA WhatStands ==
  ASSUME Shape
  PROVE  /\ \A t \in Patches : /\ pc[t] = 4 => Op(t) = Lock("config")
                               /\ pc[t] = 5 => Op(t) = Do("patch")
                               /\ pc[t] = 6 => Op(t) = Do("point")
                               /\ pc[t] = 8 => Op(t) = Do("install")
                               /\ pc[t] = k + 12 => Op(t) = Unlock("config")
                               /\ pc[t] = k + 18 => Op(t) = Do("copy")
         /\ \A t \in Reloads : /\ pc[t] = 4 => Op(t) = Lock("config")
                               /\ pc[t] = 5 => Op(t) = Do("load")
                               /\ pc[t] = 8 => Op(t) = Unlock("config")
                               /\ pc[t] = 10 => Op(t) = Do("point")
                               /\ pc[t] = 13 => Op(t) = Do("install")
<1>1. ASSUME NEW t \in Patches PROVE StandsPatch(t)
  <2>1. pc[t] \in Nat \ {0}  BY HotReloadConstants DEF Shape
  <2> QED  BY <2>1, PatchStands
<1>2. ASSUME NEW t \in Reloads PROVE StandsReload(t)
  <2>1. pc[t] \in Nat \ {0}  BY HotReloadConstants DEF Shape
  <2> QED  BY <2>1, ReloadStands
<1> QED  BY <1>1, <1>2 DEF StandsPatch, StandsReload

LEMMA HoldingInHand ==
  ASSUME Shape, NEW t \in Threads, Holding(t)
  PROVE  InHand(t)
<1>1. \A o \in Beside : o \notin {Do("copy"), Do("point")}  BY ElementsDiffer DEF Plain
<1>2. CASE t \in Patches /\ pc[t] \in {7, 8}
  <2>1. Handler(t) = Patch /\ pc[t] \in {7, 8}  BY <1>2, HandlerIs
  <2>2. 8 \in pc[t]..Len(Patch) /\ Patch[8] = Do("install")  BY <2>1, PatchIs, KIs
  <2>3. \A i \in pc[t]..(8 - 1) : Patch[i] \in Beside
    <3>1. \A i \in pc[t]..(8 - 1) : i = 7  BY <2>1
    <3>2. Patch[7] \in Beside  BY PatchIs, KIs
    <3> QED  BY <3>1, <3>2
  <2> QED  BY <1>1, <2>1, <2>2, <2>3 DEF InHand
<1>3. CASE t \in Patches /\ pc[t] \in (k + 19)..(k + 21)
  <2>1. Handler(t) = Patch /\ pc[t] \in (k + 19)..(k + 21)  BY <1>3, HandlerIs
  <2>2. k + 21 \in pc[t]..Len(Patch) /\ Patch[k + 21] = Do("install")  BY <2>1, PatchIs, KIs
  <2>3. \A i \in pc[t]..((k + 21) - 1) : Patch[i] \in Beside
    <3>1. \A i \in pc[t]..((k + 21) - 1) : i = k + 19 \/ i = k + 20  BY <2>1, KIs
    <3>2. Patch[k + 19] \in Beside /\ Patch[k + 20] \in Beside  BY PatchIs, KIs
    <3> QED  BY <3>1, <3>2
  <2> QED  BY <1>1, <2>1, <2>2, <2>3 DEF InHand
<1>4. CASE t \in Reloads /\ pc[t] \in 11..13
  <2>1. Handler(t) = Reload /\ pc[t] \in 11..13  BY <1>4, HandlerIs
  <2>2. 13 \in pc[t]..Len(Reload) /\ Reload[13] = Do("install")  BY <2>1, ReloadIs, KIs
  <2>3. \A i \in pc[t]..(13 - 1) : Reload[i] \in Beside
    <3>1. \A i \in pc[t]..(13 - 1) : i = 11 \/ i = 12  BY <2>1
    <3>2. Reload[11] \in Beside /\ Reload[12] \in Beside  BY ReloadIs, KIs
    <3> QED  BY <3>1, <3>2
  <2> QED  BY <1>1, <2>1, <2>2, <2>3 DEF InHand
<1> QED  BY <1>2, <1>3, <1>4 DEF Holding
-----------------------------------------------------------------------------
LEMMA Still ==
  ASSUME NEW u, pc'[u] = pc[u]
  PROVE  Inside(u)' = Inside(u) /\ Holding(u)' = Holding(u) /\ Pending(u)' = Pending(u)
BY DEF Inside, Holding, Pending, k

LEMMA Advances ==
  ASSUME Shape, NEW t \in Threads, Advance(t)
  PROVE  /\ pc' \in [Threads -> Nat \ {0}]
         /\ \A u \in Threads \ {t} : pc'[u] = pc[u]
         /\ t \in Patches \cup Reloads => pc'[t] = pc[t] + 1
<1>1. t \notin Queries => pc'[t] = pc[t] + 1  BY DEF Advance, Shape
<1>2. pc' \in [Threads -> Nat \ {0}]  BY DEF Advance, Shape
<1>3. \A u \in Threads \ {t} : pc'[u] = pc[u]  BY DEF Advance, Shape
<1> QED  BY <1>1, <1>2, <1>3, HotReloadConstants

\* What a step of a goroutine does to its own standing.
LEMMA Turns ==
  ASSUME Shape, NEW t \in Threads, Advance(t)
  PROVE  /\ Inside(t)' => Inside(t) \/ Op(t) = Lock("config")
         /\ Leaves(Op(t)) => Inside(t) /\ ~Inside(t)'
         /\ Holding(t)' => Holding(t) \/ Op(t) \in {Do("point"), Do("copy")}
         /\ Pending(t) => Pending(t)' \/ Op(t) = Do("install")
         /\ Op(t) \in {Do("patch"), Do("load")} => Inside(t) /\ Pending(t)' /\ ~Holding(t)'
         /\ Op(t) = Do("install") => Holding(t)
<1>0. pc[t] \in Nat \ {0} /\ k \in Nat /\ k' = k  BY KIs DEF Shape, k
<1>1. CASE t \in Patches
  <2>1. pc'[t] = pc[t] + 1 /\ t \notin Reloads  BY <1>1, Advances, HotReloadConstants
  <2>2. /\ Inside(t) <=> pc[t] \in 5..(k + 12)
        /\ Inside(t)' <=> pc[t] + 1 \in 5..(k + 12)
        /\ Holding(t) <=> pc[t] \in {7, 8} \cup (k + 19)..(k + 21)
        /\ Holding(t)' <=> pc[t] + 1 \in {7, 8} \cup (k + 19)..(k + 21)
        /\ Pending(t) <=> pc[t] \in 6..8
        /\ Pending(t)' <=> pc[t] + 1 \in 6..8
    BY <1>0, <1>1, <2>1 DEF Inside, Holding, Pending
  <2>3. Inside(t)' => Inside(t) \/ pc[t] = 4  BY <1>0, <2>2
  <2>4. Holding(t)' => Holding(t) \/ pc[t] = 6 \/ pc[t] = k + 18  BY <1>0, <2>2
  <2>5. Pending(t) => Pending(t)' \/ pc[t] = 8  BY <1>0, <2>2
  <2>6. Leaves(Op(t)) => Inside(t) /\ ~Inside(t)'
    <3>1. Leaves(Op(t)) => pc[t] = k + 12  BY <2>1, WhoStands
    <3> QED  BY <1>0, <2>2, <3>1
  <2>7. Op(t) \in {Do("patch"), Do("load")} => Inside(t) /\ Pending(t)' /\ ~Holding(t)'
    <3>1. Op(t) \in {Do("patch"), Do("load")} => pc[t] = 5  BY WhoStands
    <3> QED  BY <1>0, <2>2, <3>1
  <2>8. Op(t) = Do("install") => Holding(t)
    <3>1. Op(t) = Do("install") => pc[t] \in {8, k + 21}  BY <2>1, WhoStands
    <3> QED  BY <1>0, <2>2, <3>1
  <2> QED  BY <1>1, <2>3, <2>4, <2>5, <2>6, <2>7, <2>8, WhatStands
<1>2. CASE t \in Reloads
  <2>1. pc'[t] = pc[t] + 1 /\ t \notin Patches  BY <1>2, Advances, HotReloadConstants
  <2>2. /\ Inside(t) <=> pc[t] \in 5..8
        /\ Inside(t)' <=> pc[t] + 1 \in 5..8
        /\ Holding(t) <=> pc[t] \in 11..13
        /\ Holding(t)' <=> pc[t] + 1 \in 11..13
        /\ Pending(t) <=> pc[t] \in 6..13
        /\ Pending(t)' <=> pc[t] + 1 \in 6..13
    BY <1>0, <1>2, <2>1 DEF Inside, Holding, Pending
  <2>3. Inside(t)' => Inside(t) \/ pc[t] = 4  BY <1>0, <2>2
  <2>4. Holding(t)' => Holding(t) \/ pc[t] = 10  BY <1>0, <2>2
  <2>5. Pending(t) => Pending(t)' \/ pc[t] = 13  BY <1>0, <2>2
  <2>6. Leaves(Op(t)) => Inside(t) /\ ~Inside(t)'
    <3>1. Leaves(Op(t)) => pc[t] = 8  BY <2>1, WhoStands
    <3> QED  BY <1>0, <2>2, <3>1
  <2>7. Op(t) \in {Do("patch"), Do("load")} => Inside(t) /\ Pending(t)' /\ ~Holding(t)'
    <3>1. Op(t) \in {Do("patch"), Do("load")} => pc[t] = 5  BY WhoStands
    <3> QED  BY <1>0, <2>2, <3>1
  <2>8. Op(t) = Do("install") => Holding(t)
    <3>1. Op(t) = Do("install") => pc[t] = 13  BY <2>1, WhoStands
    <3> QED  BY <1>0, <2>2, <3>1
  <2> QED  BY <1>2, <2>3, <2>4, <2>5, <2>6, <2>7, <2>8, WhatStands
<1>3. CASE t \notin Patches \cup Reloads
  <2>1. ~Inside(t)' /\ ~Holding(t)' /\ ~Pending(t)  BY <1>3 DEF Inside, Holding, Pending
  <2> QED  BY <1>3, <2>1, WhoStands
<1> QED  BY <1>1, <1>2, <1>3

\* A handler that gives up is out of it all.
LEMMA GivenUp ==
  ASSUME Shape, NEW t \in Patches \cup Reloads, GiveUp(t)
  PROVE  /\ pc' \in [Threads -> Nat \ {0}]
         /\ \A u \in Threads \ {t} : pc'[u] = pc[u]
         /\ ~Inside(t)' /\ ~Holding(t)'
<1>0. k \in Nat /\ k' = k /\ t \in Threads  BY KIs, HotReloadConstants DEF k
<1>1. Len(Handler(t)) = IF t \in Patches THEN 2 * k + 24 ELSE k + 16  BY HandlerIs, PatchIs, ReloadIs
<1> DEFINE n == Len(Handler(t))
<1>2. pc' = [pc EXCEPT ![t] = n + 1]  BY DEF GiveUp
<1>3. n \in Nat  BY <1>0, <1>1
<1> HIDE DEF n
<1>4. pc' \in [Threads -> Nat \ {0}] /\ pc'[t] = n + 1 /\ \A u \in Threads \ {t} : pc'[u] = pc[u]
  BY <1>0, <1>2, <1>3 DEF Shape
<1>5. CASE t \in Patches
  <2>1. pc'[t] = 2 * k + 25 /\ t \notin Reloads  BY <1>0, <1>1, <1>4, <1>5, HotReloadConstants DEF n
  <2> QED  BY <1>0, <1>4, <2>1 DEF Inside, Holding
<1>6. CASE t \in Reloads
  <2>1. pc'[t] = k + 17 /\ t \notin Patches  BY <1>0, <1>1, <1>4, <1>6, HotReloadConstants DEF n
  <2> QED  BY <1>0, <1>4, <2>1 DEF Inside, Holding
<1> QED  BY <1>5, <1>6
-----------------------------------------------------------------------------
LEMMA RefsAre == \A v \in Nat : Copy(v) \in Refs /\ [live |-> TRUE, version |-> v] \in Refs
BY DEF Copy, Refs

LEMMA SeenIs == ASSUME NEW r \in Refs, config \in Nat PROVE Seen(r) \in Nat
BY DEF Seen, Refs

\* What the lock operations make of a lock.
LEMMA LockWith ==
  ASSUME NEW m \in Locks
  PROVE  /\ m.readers \in [Threads -> Int]
         /\ LET x == [m EXCEPT !.held = TRUE]
            IN x \in Locks /\ x.held /\ x.announced = m.announced
         /\ LET x == [m EXCEPT !.held = FALSE]
            IN x \in Locks /\ ~x.held /\ x.announced = m.announced
BY DEF Locks

LEMMA AnnouncedWith ==
  ASSUME NEW m \in Locks, NEW a \in Threads \cup {NoThread}, NEW x, x = [m EXCEPT !.announced = a]
  PROVE  x \in Locks /\ x.held = m.held /\ x.announced = a
BY DEF Locks

LEMMA ReadersWith ==
  ASSUME NEW m \in Locks, NEW g \in [Threads -> Int], NEW x, x = [m EXCEPT !.readers = g]
  PROVE  x \in Locks /\ x.held = m.held /\ x.announced = m.announced
BY DEF Locks

LEMMA LocksAre ==
  ASSUME NEW m \in Locks, NEW t \in Threads
  PROVE  /\ RLocked(m, t) \in Locks /\ RUnlocked(m, t) \in Locks /\ Announced(m, t) \in Locks
         /\ Locked(m) \in Locks /\ WUnlocked(m) \in Locks
         /\ RLocked(m, t).announced = m.announced /\ RLocked(m, t).held = m.held
         /\ RUnlocked(m, t).announced = m.announced /\ RUnlocked(m, t).held = m.held
         /\ Announced(m, t).announced = t /\ Announced(m, t).held = m.held
         /\ Locked(m).announced = m.announced /\ Locked(m).held
         /\ ~WUnlocked(m).held
<1>0. PICK f \in [Threads -> Int] : f = m.readers  BY LockWith
<1>1. PICK g \in [Threads -> Int] : g = [f EXCEPT ![t] = @ + 1]
  <2>1. [f EXCEPT ![t] = @ + 1] \in [Threads -> Int]  OBVIOUS
  <2> QED  BY <2>1
<1>2. PICK d \in [Threads -> Int] : d = [f EXCEPT ![t] = @ - 1]
  <2>1. [f EXCEPT ![t] = @ - 1] \in [Threads -> Int]  OBVIOUS
  <2> QED  BY <2>1
<1>3. RLocked(m, t) = [m EXCEPT !.readers = g]  BY <1>0, <1>1 DEF RLocked
<1>4. RUnlocked(m, t) = [m EXCEPT !.readers = d]  BY <1>0, <1>2 DEF RUnlocked
<1>5. Announced(m, t) \in Locks /\ Announced(m, t).held = m.held /\ Announced(m, t).announced = t
  BY AnnouncedWith DEF Announced
<1>6. Locked(m) \in Locks /\ Locked(m).held /\ Locked(m).announced = m.announced
  BY LockWith DEF Locked
<1>7. PICK x \in Locks : x = [m EXCEPT !.held = FALSE] /\ ~x.held  BY LockWith
<1>8. WUnlocked(m) = [x EXCEPT !.announced = NoThread]  BY <1>7 DEF WUnlocked
<1>9. WUnlocked(m) \in Locks /\ ~WUnlocked(m).held
  <2>1. PICK w : w = [x EXCEPT !.announced = NoThread]  OBVIOUS
  <2>2. x \in Locks /\ NoThread \in Threads \cup {NoThread} /\ ~x.held  BY <1>7
  <2>3. w \in Locks /\ w.held = x.held  BY <2>1, <2>2, AnnouncedWith
  <2> QED  BY <1>8, <2>1, <2>2, <2>3
<1>10. /\ RLocked(m, t) \in Locks /\ RLocked(m, t).announced = m.announced /\ RLocked(m, t).held = m.held
       /\ RUnlocked(m, t) \in Locks /\ RUnlocked(m, t).announced = m.announced /\ RUnlocked(m, t).held = m.held
  BY <1>3, <1>4, ReadersWith
<1> QED  BY <1>5, <1>6, <1>9, <1>10

\* One mutex changes: the config lock is another one, or it is that one.
LEMMA OneMutex ==
  ASSUME Shape, NEW m, NEW x, m \in Mutexes => x \in Locks, mutex' = [mutex EXCEPT ![m] = x]
  PROVE  /\ mutex' \in [Mutexes -> Locks]
         /\ m # "config" => mutex'["config"] = mutex["config"]
         /\ m = "config" => mutex'["config"] = x
<1>1. "config" \in Mutexes  BY DEF Mutexes
<1> QED  BY <1>1 DEF Shape

LEMMA NobodyElse ==
  ASSUME Shape, Guarded, NEW t \in Threads, Owns(t), NEW u \in Threads \ {t}
  PROVE  ~Inside(u)
BY DEF Guarded, Owns

LEMMA KeepsOwner ==
  ASSUME mutex'["config"].held = mutex["config"].held, mutex'["config"].announced = mutex["config"].announced
  PROVE  \A u : Owns(u)' = Owns(u)
BY DEF Owns

\* Nobody's ownership is lost and nobody gets inside: everybody inside has the lock.
LEMMA StaysGuarded ==
  ASSUME Shape, Guarded, NEW t \in Threads, Advance(t), Op(t) # Lock("config"),
         \A u \in Threads : Owns(u) => Owns(u)'
  PROVE  Guarded'
<1>1. Inside(t)' => Inside(t)  BY Turns
<1>2. \A u \in Threads \ {t} : Inside(u)' => Inside(u)  BY Advances, Still
<1>3. \A u \in Threads : Inside(u)' => Owns(u)'  BY <1>1, <1>2 DEF Guarded
<1> QED  BY <1>3 DEF Guarded

\* A step that touches neither m.config nor a reference.
LEMMA StaysDelivered ==
  ASSUME Shape, Delivered, NEW t \in Threads, Advance(t) \/ pc' = pc,
         pc' = pc \/ Op(t) \notin {Do("point"), Do("copy"), Do("install")},
         UNCHANGED <<got, rejected, overtaken, config, resolver>>
  PROVE  Delivered'
<1> SUFFICES ASSUME ~rejected, ~overtaken PROVE Fresh' /\ Owed'  BY DEF Delivered
<1>0. Fresh /\ Owed  BY DEF Delivered
<1>1. \A u \in Threads : (Holding(u)' => Holding(u)) /\ (Pending(u) => Pending(u)')
  <2>1. CASE pc' = pc  BY <2>1, Still
  <2>2. CASE Advance(t) /\ pc' # pc
    <3>1. (Holding(t)' => Holding(t)) /\ (Pending(t) => Pending(t)')  BY <2>2, Turns
    <3>2. \A u \in Threads \ {t} : (Holding(u)' => Holding(u)) /\ (Pending(u) => Pending(u)')
      BY <2>2, Advances, Still
    <3> QED  BY <3>1, <3>2
  <2> QED  BY <2>1, <2>2
<1>3. Seen(resolver)' = Seen(resolver) /\ \A u \in Threads : Seen(got[u])' = Seen(got[u])  BY DEF Seen
<1>4. Fresh'  BY <1>0, <1>1, <1>3 DEF Fresh
<1>5. Owed'  BY <1>0, <1>1, <1>3 DEF Owed
<1> QED  BY <1>4, <1>5
-----------------------------------------------------------------------------
\* The operations on the mutexes.
LEMMA DataUntouched ==
  ASSUME Reaches, NEW t \in Threads, Advance(t) \/ pc' = pc,
         pc' = pc \/ Op(t) \notin {Do("point"), Do("copy"), Do("install")},
         UNCHANGED Data, mutex' \in [Mutexes -> Locks], Guarded'
  PROVE  Reaches'
<1>0. Shape /\ Delivered  BY DEF Reaches
<1>1. Delivered'  BY <1>0, StaysDelivered DEF Data
<1>2. pc' \in [Threads -> Nat \ {0}]  BY <1>0, Advances DEF Shape
<1>3. Shape'  BY <1>0, <1>2 DEF Shape, Data
<1> QED  BY <1>1, <1>3 DEF Reaches

\* An operation on a mutex is none on the data.
LEMMA LockOrDo ==
  ASSUME NEW t, NEW w \in {"RLock", "RUnlock", "Lock", "Unlock"}, At(t, w)
  PROVE  Op(t) \notin {Do("point"), Do("copy"), Do("install")} /\ (w # "Lock" => Op(t) # Lock("config"))
BY DEF At, Do, Lock

LEMMA ReadersStep ==
  ASSUME Reaches, NEW t \in Threads, StepRLock(t) \/ StepRUnlock(t)
  PROVE  Reaches'
<1>0. Shape /\ Guarded  BY DEF Reaches
<1>1. PICK m, x : /\ mutex' = [mutex EXCEPT ![m] = x]
                  /\ x = RLocked(mutex[m], t) \/ x = RUnlocked(mutex[m], t)
  BY DEF StepRLock, StepRUnlock
<1>2. m \in Mutexes => mutex[m] \in Locks  BY <1>0 DEF Shape
<1>3. m \in Mutexes => /\ x \in Locks /\ x.held = mutex[m].held
                       /\ x.announced = mutex[m].announced
  <2> SUFFICES ASSUME m \in Mutexes
                 PROVE  x \in Locks /\ x.held = mutex[m].held /\ x.announced = mutex[m].announced
    OBVIOUS
  <2>1. PICK y \in Locks : y = mutex[m]  BY <1>2
  <2>2. x = RLocked(y, t) \/ x = RUnlocked(y, t)  BY <1>1, <2>1
  <2>3. x \in Locks /\ x.held = y.held /\ x.announced = y.announced  BY <2>2, LocksAre
  <2> QED  BY <2>1, <2>3
<1>4. mutex' \in [Mutexes -> Locks]  BY <1>0, <1>1, <1>3, OneMutex
<1>5. mutex'["config"].held = mutex["config"].held /\ mutex'["config"].announced = mutex["config"].announced
  <2>1. "config" \in Mutexes  BY DEF Mutexes
  <2> QED  BY <1>0, <1>1, <1>3, <2>1, OneMutex
<1>6. Advance(t) /\ UNCHANGED Data /\ (At(t, "RLock") \/ At(t, "RUnlock"))  BY DEF StepRLock, StepRUnlock
<1>7. Op(t) \notin {Do("point"), Do("copy"), Do("install")} /\ Op(t) # Lock("config")
  <2>1. CASE At(t, "RLock")  BY <2>1, LockOrDo
  <2>2. CASE At(t, "RUnlock")  BY <2>2, LockOrDo
  <2> QED  BY <1>6, <2>1, <2>2
<1>8. Guarded'  BY <1>0, <1>5, <1>6, <1>7, KeepsOwner, StaysGuarded
<1> QED  BY <1>4, <1>6, <1>7, <1>8, DataUntouched

LEMMA AnnounceStep ==
  ASSUME Reaches, NEW t \in Threads, StepAnnounce(t)
  PROVE  Reaches'
<1>0. Shape /\ Guarded  BY DEF Reaches
<1>1. PICK m, x : /\ mutex' = [mutex EXCEPT ![m] = x] /\ x = Announced(mutex[m], t)
                  /\ mutex[m].announced = NoThread
  BY DEF StepAnnounce, CanAnnounce
<1>2. m \in Mutexes => x \in Locks
  <2>1. m \in Mutexes => mutex[m] \in Locks  BY <1>0 DEF Shape
  <2> QED  BY <1>1, <2>1, LocksAre
<1>3. mutex' \in [Mutexes -> Locks]  BY <1>0, <1>1, <1>2, OneMutex
<1>4. \A u \in Threads : Owns(u) => Owns(u)'
  <2>1. CASE m = "config"  BY <1>1, <2>1, HotReloadConstants DEF Owns
  <2>2. CASE m # "config"
    <3>1. mutex'["config"] = mutex["config"]  BY <1>0, <1>1, <1>2, <2>2, OneMutex
    <3> QED  BY <3>1 DEF Owns
  <2> QED  BY <2>1, <2>2
<1>5. pc' = pc /\ UNCHANGED Data  BY DEF StepAnnounce
<1>6. Guarded'
  <2>1. \A u \in Threads : Inside(u)' = Inside(u)  BY <1>5, Still
  <2> QED  BY <1>0, <1>4, <2>1 DEF Guarded
<1> QED  BY <1>3, <1>5, <1>6, DataUntouched

LEMMA LockStep ==
  ASSUME Reaches, NEW t \in Threads, StepLock(t)
  PROVE  Reaches'
<1>0. Shape /\ Guarded  BY DEF Reaches
<1>1. PICK m, x : /\ mutex' = [mutex EXCEPT ![m] = x] /\ x = Locked(mutex[m]) /\ m = Op(t)[2]
                  /\ mutex[m].announced = t /\ ~mutex[m].held
  BY DEF StepLock, CanLock
<1>2. m \in Mutexes => x \in Locks /\ x.held /\ x.announced = mutex[m].announced
  <2>1. m \in Mutexes => mutex[m] \in Locks  BY <1>0 DEF Shape
  <2> QED  BY <1>1, <2>1, LocksAre
<1>3. mutex' \in [Mutexes -> Locks]  BY <1>0, <1>1, <1>2, OneMutex
<1>4. Advance(t) /\ UNCHANGED Data /\ At(t, "Lock")  BY DEF StepLock
<1>5. Op(t) \notin {Do("point"), Do("copy"), Do("install")}  BY <1>4, LockOrDo
<1>6. CASE m = "config"
  <2>1. "config" \in Mutexes  BY DEF Mutexes
  <2>2. \A u \in Threads : ~Inside(u)  BY <1>0, <1>1, <1>6 DEF Guarded, Owns
  <2>3. Owns(t)'  BY <1>0, <1>1, <1>2, <1>6, <2>1, OneMutex DEF Owns
  <2>4. \A u \in Threads \ {t} : ~Inside(u)'  BY <1>0, <1>4, <2>2, Advances, Still
  <2>5. Guarded'  BY <2>3, <2>4 DEF Guarded
  <2> QED  BY <1>3, <1>4, <1>5, <2>5, DataUntouched
<1>7. CASE m # "config"
  <2>1. mutex'["config"] = mutex["config"]  BY <1>0, <1>1, <1>2, <1>7, OneMutex
  <2>2. \A u \in Threads : Owns(u) => Owns(u)'  BY <2>1 DEF Owns
  <2>3. Op(t) # Lock("config")  BY <1>1, <1>7 DEF Lock
  <2>4. Guarded'  BY <1>0, <1>4, <2>2, <2>3, StaysGuarded
  <2> QED  BY <1>3, <1>4, <1>5, <2>4, DataUntouched
<1> QED  BY <1>6, <1>7

LEMMA UnlockStep ==
  ASSUME Reaches, NEW t \in Threads, StepUnlock(t)
  PROVE  Reaches'
<1>0. Shape /\ Guarded  BY DEF Reaches
<1>1. PICK m, x : mutex' = [mutex EXCEPT ![m] = x] /\ x = WUnlocked(mutex[m]) /\ m = Op(t)[2]
  BY DEF StepUnlock
<1>2. m \in Mutexes => x \in Locks
  <2>1. m \in Mutexes => mutex[m] \in Locks  BY <1>0 DEF Shape
  <2> QED  BY <1>1, <2>1, LocksAre
<1>3. mutex' \in [Mutexes -> Locks]  BY <1>0, <1>1, <1>2, OneMutex
<1>4. Advance(t) /\ UNCHANGED Data /\ At(t, "Unlock")  BY DEF StepUnlock
<1>5. Op(t) \notin {Do("point"), Do("copy"), Do("install")} /\ Op(t) # Lock("config")
  BY <1>4, LockOrDo
<1>6. CASE m = "config"
  <2>1. Leaves(Op(t))  BY <1>1, <1>4, <1>6 DEF Leaves, At
  <2>2. Inside(t) /\ ~Inside(t)'  BY <1>0, <1>4, <2>1, Turns
  <2>3. Owns(t)  BY <1>0, <2>2 DEF Guarded
  <2>4. \A u \in Threads \ {t} : ~Inside(u)'  BY <1>0, <1>4, <2>3, NobodyElse, Advances, Still
  <2>5. Guarded'  BY <2>2, <2>4 DEF Guarded
  <2> QED  BY <1>3, <1>4, <1>5, <2>5, DataUntouched
<1>7. CASE m # "config"
  <2>1. mutex'["config"] = mutex["config"]  BY <1>0, <1>1, <1>2, <1>7, OneMutex
  <2>2. \A u \in Threads : Owns(u) => Owns(u)'  BY <2>1 DEF Owns
  <2>3. Guarded'  BY <1>0, <1>4, <1>5, <2>2, StaysGuarded
  <2> QED  BY <1>3, <1>4, <1>5, <2>3, DataUntouched
<1> QED  BY <1>6, <1>7
-----------------------------------------------------------------------------
\* The operations on the data.
LEMMA DoGuards ==
  ASSUME Reaches, NEW t \in Threads, NEW what, Doing(t, what)
  PROVE  Guarded' /\ pc' \in [Threads -> Nat \ {0}] /\ mutex' = mutex /\ Advance(t) /\ Op(t) = Do(what)
<1>1. Shape /\ Guarded /\ mutex' = mutex /\ Advance(t) /\ Op(t) = Do(what)  BY DEF Reaches, Doing
<1>2. Op(t) # Lock("config")  BY <1>1 DEF Lock, Do
<1>3. \A u \in Threads : Owns(u) => Owns(u)'  BY <1>1 DEF Owns
<1>4. Guarded'  BY <1>1, <1>2, <1>3, StaysGuarded
<1> QED  BY <1>1, <1>4, Advances

\* A goroutine has taken a reference to what m.config says now.
LEMMA TakeStep ==
  ASSUME Reaches, NEW t \in Threads, DoCopy(t) \/ DoPoint(t)
  PROVE  Reaches'
<1>0. Shape /\ Delivered  BY DEF Reaches
<1>1. PICK what \in {"copy", "point"} : Doing(t, what)  BY DEF DoCopy, DoPoint
<1>2. PICK x \in Refs : /\ got' = [got EXCEPT ![t] = x]
                        /\ x = Copy(config) \/ x = [live |-> TRUE, version |-> config]
  <2>1. Copy(config) \in Refs /\ [live |-> TRUE, version |-> config] \in Refs  BY <1>0, RefsAre DEF Shape
  <2>2. CASE DoCopy(t)
    <3>1. got' = [got EXCEPT ![t] = Copy(config)]  BY <2>2 DEF DoCopy
    <3> QED  BY <2>1, <3>1
  <2>3. CASE DoPoint(t)
    <3>1. got' = [got EXCEPT ![t] = [live |-> TRUE, version |-> config]]  BY <2>3 DEF DoPoint
    <3> QED  BY <2>1, <3>1
  <2> QED  BY <2>2, <2>3
<1>3. UNCHANGED <<latest, rejected, overtaken, config, file, resolver>>  BY DEF DoCopy, DoPoint
<1>5. Guarded' /\ pc' \in [Threads -> Nat \ {0}] /\ mutex' = mutex /\ Advance(t) /\ Op(t) = Do(what)
  BY <1>1, DoGuards
<1>6. got' \in [Threads -> Refs]  BY <1>0, <1>2 DEF Shape
<1>7. Shape'  BY <1>0, <1>3, <1>5, <1>6 DEF Shape
<1>8. Delivered'
  <2> SUFFICES ASSUME ~rejected, ~overtaken PROVE Fresh' /\ Owed'  BY <1>3 DEF Delivered
  <2>1. Fresh /\ Owed  BY <1>0 DEF Delivered
  <2>3. got'[t] = x /\ \A u \in Threads \ {t} : got'[u] = got[u]  BY <1>0, <1>2 DEF Shape
  <2>4. Seen(got[t])' = config'  BY <1>2, <1>3, <2>3 DEF Seen, Copy
  <2>5. \A u \in Threads \ {t} : Holding(u)' => Seen(got[u])' = config'
    <3>1. \A u \in Threads \ {t} : Holding(u)' => Holding(u)  BY <1>0, <1>5, Advances, Still
    <3>2. \A u \in Threads \ {t} : Seen(got[u])' = Seen(got[u])  BY <1>3, <2>3 DEF Seen
    <3> QED  BY <1>3, <2>1, <3>1, <3>2 DEF Fresh
  <2>6. Fresh'  BY <2>4, <2>5 DEF Fresh
  <2>7. Seen(resolver)' = Seen(resolver)  BY <1>3 DEF Seen
  <2>8. \A u \in Threads : Pending(u) => Pending(u)'
    <3>1. Op(t) # Do("install")  BY <1>5, Sorts
    <3>2. Pending(t) => Pending(t)'  BY <1>0, <1>5, <3>1, Turns
    <3> QED  BY <1>0, <1>5, <3>2, Advances, Still
  <2>9. Owed'  BY <1>3, <2>1, <2>7, <2>8 DEF Owed
  <2> QED  BY <2>6, <2>9
<1> QED  BY <1>5, <1>7, <1>8 DEF Reaches

\* What is installed is what m.config says.
LEMMA InstallStep ==
  ASSUME Reaches, NEW t \in Threads, DoInstall(t)
  PROVE  Reaches'
<1>0. Shape /\ Delivered  BY DEF Reaches
<1>1. Guarded' /\ pc' \in [Threads -> Nat \ {0}] /\ mutex' = mutex /\ Advance(t) /\ Op(t) = Do("install")
  <2>1. Doing(t, "install")  BY DEF DoInstall
  <2> QED  BY <2>1, DoGuards
<1>2. resolver' = got[t] /\ UNCHANGED <<latest, rejected, overtaken, got, config, file>>  BY DEF DoInstall
<1>3. Shape'  BY <1>0, <1>1, <1>2 DEF Shape
<1>4. Delivered'
  <2> SUFFICES ASSUME ~rejected, ~overtaken PROVE Fresh' /\ Owed'  BY <1>2 DEF Delivered
  <2>1. Fresh /\ Holding(t)  BY <1>0, <1>1, Turns DEF Delivered
  <2>2. Op(t) \notin {Do("point"), Do("copy")}  BY <1>1, Sorts
  <2>3. \A u \in Threads : Holding(u)' => Holding(u)
    <3>1. Holding(t)' => Holding(t)  BY <2>1
    <3> QED  BY <1>0, <1>1, <3>1, Advances, Still
  <2>4. \A u \in Threads : Seen(got[u])' = Seen(got[u])  BY <1>2 DEF Seen
  <2>5. Fresh'  BY <1>2, <2>1, <2>3, <2>4 DEF Fresh
  <2>6. Seen(resolver)' = Seen(got[t])  BY <1>2 DEF Seen
  <2>7. Owed'  BY <1>2, <2>1, <2>6 DEF Owed, Fresh
  <2> QED  BY <2>5, <2>7
<1> QED  BY <1>1, <1>3, <1>4 DEF Reaches

\* Once m.config changes, nobody holds anything else unless it has been overtaken.
LEMMA ChangeDelivers ==
  ASSUME Reaches, NEW t \in Threads, Advance(t), Op(t) \in {Do("patch"), Do("load")},
         overtaken' = (overtaken \/ Overtakes(t)), rejected' = rejected
  PROVE  Delivered'
<1>0. Shape /\ Guarded  BY DEF Reaches
<1> SUFFICES ASSUME ~overtaken' PROVE Fresh' /\ Owed'  BY DEF Delivered
<1>1. Inside(t) /\ Pending(t)' /\ ~Holding(t)'  BY <1>0, Turns
<1>2. \A u \in Threads \ {t} : ~Owns(u)
  <2>1. Owns(t)  BY <1>0, <1>1 DEF Guarded
  <2> QED  BY <2>1 DEF Owns
<1>3. \A u \in Threads \ {t} : InHand(u) => Seen(got[u])' = config'  BY <1>2 DEF Overtakes
<1>4. \A u \in Threads \ {t} : Holding(u)' => InHand(u)
  <2>1. \A u \in Threads \ {t} : Holding(u)' => Holding(u)  BY <1>0, Advances, Still
  <2> QED  BY <1>0, <2>1, HoldingInHand
<1>5. Fresh'  BY <1>1, <1>3, <1>4 DEF Fresh
<1>6. Owed'  BY <1>1 DEF Owed
<1> QED  BY <1>5, <1>6

LEMMA PatchStep ==
  ASSUME Reaches, NEW t \in Threads, DoPatch(t)
  PROVE  Reaches'
<1>0. Shape  BY DEF Reaches
<1>1. Doing(t, "patch")  BY DEF DoPatch
<1>2. Guarded' /\ pc' \in [Threads -> Nat \ {0}] /\ mutex' = mutex /\ Advance(t) /\ Op(t) = Do("patch")
  BY <1>1, DoGuards
<1>3. /\ config' = latest + 1 /\ latest' = latest + 1 /\ UNCHANGED <<got, rejected, file, resolver>>
      /\ overtaken' = (overtaken \/ Overtakes(t))
  BY DEF DoPatch
<1>4. Delivered'  BY <1>2, <1>3, ChangeDelivers
<1>5. overtaken' \in BOOLEAN  BY <1>0, <1>3 DEF Shape
<1>6. Shape'  BY <1>0, <1>2, <1>3, <1>5 DEF Shape
<1> QED  BY <1>2, <1>4, <1>6 DEF Reaches

LEMMA LoadStep ==
  ASSUME Reaches, NEW t \in Threads, DoLoad(t)
  PROVE  Reaches'
<1>0. Shape  BY DEF Reaches
<1>1. Doing(t, "load")  BY DEF DoLoad
<1>2. Guarded' /\ pc' \in [Threads -> Nat \ {0}] /\ mutex' = mutex /\ Advance(t) /\ Op(t) = Do("load")
  BY <1>1, DoGuards
<1>3. /\ config' = file /\ UNCHANGED <<latest, rejected, file>>
      /\ overtaken' = (overtaken \/ Overtakes(t))
      /\ got' = [u \in Threads |-> Copy(Seen(got[u]))] /\ resolver' = Copy(Seen(resolver))
  BY DEF DoLoad
<1>4. Delivered'  BY <1>2, <1>3, ChangeDelivers
<1>5. overtaken' \in BOOLEAN  BY <1>0, <1>3 DEF Shape
<1>6. resolver' \in Refs /\ got' \in [Threads -> Refs]
  <2>1. config \in Nat /\ resolver \in Refs /\ \A u \in Threads : got[u] \in Refs  BY <1>0 DEF Shape
  <2>2. Copy(Seen(resolver)) \in Refs /\ \A u \in Threads : Copy(Seen(got[u])) \in Refs
    BY <2>1, SeenIs, RefsAre
  <2> QED  BY <1>3, <2>2
<1>7. Shape'  BY <1>0, <1>2, <1>3, <1>5, <1>6 DEF Shape
<1> QED  BY <1>2, <1>4, <1>7 DEF Reaches

\* A handler that gives up had the config lock or was not inside, and owed nothing.
LEMMA GiveUpStep ==
  ASSUME Reaches, NEW t \in Patches \cup Reloads, GiveUp(t), Op(t) \in {Do("patch"), Do("load"), Do("write")},
         UNCHANGED <<got, overtaken, file, resolver>>, latest' \in Nat, config' \in Nat,
         rejected' = TRUE \/ (Op(t) # Do("patch") /\ config' = config /\ rejected' = rejected),
         ~Pending(t) \/ rejected' = TRUE
  PROVE  Reaches'
<1>0. Shape /\ Guarded /\ Delivered /\ t \in Threads  BY HotReloadConstants DEF Reaches
<1>1. /\ pc' \in [Threads -> Nat \ {0}] /\ ~Inside(t)' /\ ~Holding(t)'
      /\ \A u \in Threads \ {t} : pc'[u] = pc[u]
  BY <1>0, GivenUp
<1>2. mutex' \in [Mutexes -> Locks]
  <2>1. "config" \in Mutexes  BY DEF Mutexes
  <2>2. mutex["config"] \in Locks  BY <1>0, <2>1 DEF Shape
  <2>3. PICK x \in Locks : x = WUnlocked(mutex["config"])  BY <1>0, <2>2, LocksAre
  <2>4. mutex' = mutex \/ mutex' = [mutex EXCEPT !["config"] = x]  BY <2>3 DEF GiveUp
  <2> QED  BY <1>0, <2>4 DEF Shape
<1>3. Guarded'
  <2>1. CASE Owns(t)
    <3>1. \A u \in Threads \ {t} : ~Inside(u)'  BY <1>0, <1>1, <2>1, NobodyElse, Still
    <3> QED  BY <1>1, <3>1 DEF Guarded
  <2>2. CASE ~Owns(t)
    <3>1. mutex' = mutex  BY <2>2 DEF GiveUp, Owns
    <3>2. \A u \in Threads : Owns(u)' = Owns(u)  BY <3>1 DEF Owns
    <3>3. \A u \in Threads \ {t} : Inside(u)' = Inside(u)  BY <1>1, Still
    <3> QED  BY <1>0, <1>1, <3>2, <3>3 DEF Guarded
  <2> QED  BY <2>1, <2>2
<1>4. Shape'  BY <1>0, <1>1, <1>2 DEF Shape
<1>5. Delivered'
  <2> SUFFICES ASSUME ~rejected', ~overtaken PROVE Fresh' /\ Owed'  BY DEF Delivered
  <2>1. Fresh /\ Owed /\ ~Pending(t) /\ config' = config  BY <1>0 DEF Delivered
  <2>2. Seen(resolver)' = Seen(resolver) /\ \A u \in Threads : Seen(got[u])' = Seen(got[u])  BY <2>1 DEF Seen
  <2>3. \A u \in Threads \ {t} : Holding(u)' = Holding(u) /\ Pending(u)' = Pending(u)  BY <1>1, Still
  <2>4. Fresh'  BY <1>1, <2>1, <2>2, <2>3 DEF Fresh
  <2>5. Owed'  BY <2>1, <2>2, <2>3 DEF Owed
  <2> QED  BY <2>4, <2>5
<1> QED  BY <1>3, <1>4, <1>5 DEF Reaches

LEMMA FailingStep ==
  ASSUME Reaches, NEW t \in Threads, DoRejectedPatch(t) \/ DoLoadFails(t)
  PROVE  Reaches'
<1>0. Shape /\ pc[t] \in Nat /\ k \in Nat  BY KIs DEF Reaches, Shape
<1>1. CASE DoRejectedPatch(t)
  <2>1. /\ Op(t) = Do("patch") /\ GiveUp(t) /\ rejected' = TRUE /\ config' = latest + 1 /\ latest' = latest + 1
        /\ UNCHANGED <<got, overtaken, file, resolver>>
    BY <1>1 DEF DoRejectedPatch
  <2>2. t \in Patches /\ latest' \in Nat /\ config' \in Nat  BY <1>0, <2>1, WhoStands DEF Shape
  <2> QED  BY <2>1, <2>2, GiveUpStep
<1>2. CASE DoLoadFails(t)
  <2>1. /\ Op(t) = Do("load") /\ GiveUp(t) /\ rejected' = rejected /\ config' = config /\ latest' = latest
        /\ UNCHANGED <<got, overtaken, file, resolver>>
    BY <1>2 DEF DoLoadFails, Data
  <2>2. t \in Reloads /\ pc[t] = 5 /\ t \notin Patches  BY <1>0, <2>1, WhoStands, HotReloadConstants
  <2>3. ~Pending(t)  BY <2>2 DEF Pending
  <2>4. Op(t) # Do("patch") /\ latest' \in Nat /\ config' \in Nat  BY <1>0, <2>1, Sorts DEF Shape
  <2> QED  BY <2>1, <2>2, <2>3, <2>4, GiveUpStep
<1> QED  BY <1>1, <1>2

LEMMA WriteStep ==
  ASSUME Reaches, NEW t \in Threads, DoWrite(t) \/ DoWriteFails(t)
  PROVE  Reaches'
<1>0. Shape /\ Delivered /\ pc[t] \in Nat /\ k \in Nat  BY KIs DEF Reaches, Shape
<1>1. CASE DoWrite(t)
  <2>1. Doing(t, "write") /\ file' = got[t].version /\ UNCHANGED <<latest, rejected, overtaken, got, config, resolver>>
    BY <1>1 DEF DoWrite
  <2>2. Guarded' /\ pc' \in [Threads -> Nat \ {0}] /\ mutex' = mutex /\ Advance(t) /\ Op(t) = Do("write")
    BY <2>1, DoGuards
  <2>3. Op(t) \notin {Do("point"), Do("copy"), Do("install")}  BY <2>2, Sorts
  <2>4. Delivered'  BY <1>0, <2>1, <2>2, <2>3, StaysDelivered
  <2>5. file' \in Nat  BY <1>0, <2>1 DEF Shape, Refs
  <2>6. Shape'  BY <1>0, <2>1, <2>2, <2>5 DEF Shape
  <2> QED  BY <2>2, <2>4, <2>6 DEF Reaches
<1>2. CASE DoWriteFails(t) /\ t \in Patches
  <2>1. /\ Op(t) = Do("write") /\ GiveUp(t) /\ rejected' = rejected /\ config' = config /\ latest' = latest
        /\ UNCHANGED <<got, overtaken, file, resolver>>
    BY <1>2 DEF DoWriteFails, Data
  <2>2. pc[t] = k + 16 /\ t \notin Reloads  BY <1>0, <1>2, <2>1, WhoStands, HotReloadConstants
  <2>3. ~Pending(t)  BY <1>0, <2>2 DEF Pending
  <2>4. Op(t) # Do("patch") /\ latest' \in Nat /\ config' \in Nat  BY <1>0, <2>1, Sorts DEF Shape
  <2> QED  BY <1>2, <2>1, <2>3, <2>4, GiveUpStep
<1>3. CASE DoWriteFails(t) /\ t \notin Patches
  <2>1. Doing(t, "write") /\ UNCHANGED Data  BY <1>3 DEF DoWriteFails, Doing
  <2>2. Guarded' /\ mutex' = mutex /\ Advance(t) /\ Op(t) = Do("write")  BY <2>1, DoGuards
  <2>3. Op(t) \notin {Do("point"), Do("copy"), Do("install")}  BY <2>2, Sorts
  <2>4. mutex' \in [Mutexes -> Locks]  BY <1>0, <2>2 DEF Shape
  <2> QED  BY <2>1, <2>2, <2>3, <2>4, DataUntouched
<1> QED  BY <1>1, <1>2, <1>3

-----------------------------------------------------------------------------
LEMMA ReachesInit == Init => Reaches
<1> SUFFICES ASSUME Init PROVE Reaches  OBVIOUS
<1>1. Copy(0) \in Refs  BY RefsAre
<1>2. Unlocked \in Locks
  <2>1. [t \in Threads |-> 0] \in [Threads -> Int]  OBVIOUS
  <2> QED  BY <2>1 DEF Unlocked, Locks
<1>3. Shape
  <2>1. mutex \in [Mutexes -> Locks]  BY <1>2 DEF Init
  <2>2. got \in [Threads -> Refs] /\ resolver \in Refs  BY <1>1 DEF Init
  <2>3. pc \in [Threads -> Nat \ {0}]  BY DEF Init
  <2>4. rejected \in BOOLEAN /\ overtaken \in BOOLEAN  BY DEF Init
  <2>5. latest \in Nat /\ config \in Nat /\ file \in Nat  BY DEF Init
  <2> QED  BY <2>1, <2>2, <2>3, <2>4, <2>5 DEF Shape
<1>4. ASSUME NEW t \in Threads PROVE ~Inside(t) /\ ~Holding(t)
  <2>1. pc[t] = 1  BY DEF Init
  <2> DEFINE i == pc[t]
  <2> HIDE DEF i
  <2>2. i \notin {7, 8} /\ i \notin (k + 19)..(k + 21) /\ i \notin 5..(k + 12) /\ i \notin 11..13 /\ i \notin 5..8
    BY <2>1, KIs DEF i
  <2> QED  BY <2>2 DEF Inside, Holding, i
<1>5. Seen(resolver) = config  BY DEF Init, Seen, Copy
<1> QED  BY <1>3, <1>4, <1>5 DEF Reaches, Guarded, Delivered, Fresh, Owed

LEMMA ReachesNext == Reaches /\ [Next]_vars => Reaches'
<1> SUFFICES ASSUME Reaches, [Next]_vars PROVE Reaches'  OBVIOUS
<1>1. CASE UNCHANGED vars
  <2>1. UNCHANGED <<mutex, pc, got, latest, rejected, overtaken, config, file, resolver>>  BY <1>1 DEF vars
  <2>2. Shape'  BY <2>1 DEF Reaches, Shape
  <2>3. \A u \in Threads : /\ Inside(u)' = Inside(u) /\ Holding(u)' = Holding(u) /\ Pending(u)' = Pending(u)
                           /\ Owns(u)' = Owns(u) /\ Seen(got[u])' = Seen(got[u])
    BY <2>1, Still DEF Owns, Seen
  <2>4. Seen(resolver)' = Seen(resolver)  BY <2>1 DEF Seen
  <2>5. Guarded'  BY <2>3 DEF Reaches, Guarded
  <2>6. Delivered'  BY <2>1, <2>3, <2>4 DEF Reaches, Delivered, Fresh, Owed
  <2> QED  BY <2>2, <2>5, <2>6 DEF Reaches
<1>2. ASSUME NEW t \in Threads, Step(t) PROVE Reaches'
  BY <1>2, ReadersStep, AnnounceStep, LockStep, UnlockStep, TakeStep, InstallStep, PatchStep, LoadStep,
     FailingStep, WriteStep DEF Step
<1> QED  BY <1>1, <1>2 DEF Next

LEMMA ReachesQuiet == Reaches => AppliedWhenQuiet
<1> SUFFICES ASSUME Reaches, Quiet, ~rejected, ~overtaken PROVE Seen(resolver) = config
  BY DEF AppliedWhenQuiet
<1>1. Owed  BY DEF Reaches, Delivered
<1>2. ASSUME NEW t \in Threads PROVE ~Pending(t)
  <2>0. pc[t] \in Nat /\ k \in Nat  BY KIs DEF Reaches, Shape
  <2>1. CASE t \in Patches
    <3>1. t \notin Reloads /\ (pc[t] = 1 \/ pc[t] > 2 * k + 24)
      BY <2>1, HandlerIs, PatchIs, HotReloadConstants DEF Quiet, Returned
    <3> QED  BY <2>0, <3>1 DEF Pending
  <2>2. CASE t \in Reloads
    <3>1. t \notin Patches /\ (pc[t] = 1 \/ pc[t] > k + 16)
      BY <2>2, HandlerIs, ReloadIs, HotReloadConstants DEF Quiet, Returned
    <3> QED  BY <2>0, <3>1 DEF Pending
  <2> QED  BY <2>1, <2>2 DEF Pending
<1> QED  BY <1>1, <1>2 DEF Owed

\* api.go:284-296, resolver.go:128: whatever the number of PATCHes, reloads, status requests,
\* queries and upstreams, when the changes have been answered the resolver works with the
\* configuration the manager holds, unless one was rejected or has overtaken another one.
THEOREM HotReloadAppliedWhenQuiet == Spec => []AppliedWhenQuiet
<1>1. Spec => []Reaches  BY ReachesInit, ReachesNext, PTL DEF Spec
<1> QED  BY <1>1, ReachesQuiet, PTL
====
