---------------------------- MODULE MCBrowserTab ----------------------------
\* Two clusters, the second one's page being open; one job to recover beside
\* another; two scripts at once; two files.
EXTENDS BrowserTab

CONSTANTS own, other, none, k, kp, empty, j1, j2, noJob, r1, r2, s1, s2, csvFile, jsonFile, noFile

TwoClusters == <<other, own>>
QueriesFound == {k, kp}
MatchesText(q, item) == IF q = k THEN TRUE ELSE item.type # "page"
PrefixOfText(q, item) == q = kp /\ item.type = "keyspace"
SmallCap == [page |-> 2, keyspace |-> 1, table |-> 1]
OneAndTwo == {<<s1>>, <<s2, s1>>}
ExtensionOf(file) == IF file = csvFile THEN "csv" ELSE "json"

=============================================================================
