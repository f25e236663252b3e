---------------------------- MODULE MCGeoUpdate ----------------------------
\* GeoUpdate on a small instance: of two targets, the first is not configured, so that
\* UpdateAll goes on after a failure; the second has a backup source for part of the time.
EXTENDS GeoUpdate

TwoTargets == <<"geosite", "geoip">>
OneSource == [primary |-> 1, backups |-> <<>>]
\* A backup list with an empty entry and the primary again.
WithBackup == [primary |-> 1, backups |-> <<0, 1, 2>>]
NoSource == [primary |-> 0, backups |-> <<2>>]
SomeSettings == {[geosite |-> NoSource, geoip |-> WithBackup],
                 [geosite |-> NoSource, geoip |-> OneSource]}
=============================================================================
