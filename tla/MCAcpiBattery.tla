--------------------------- MODULE MCAcpiBattery ---------------------------
EXTENDS AcpiBattery, TLC
CONSTANTS t1, t2
\* Either may run next to the other's, BIF next to BIF.
MCCalls == t1 :> {<<"BST", 0>>, <<"BIF", 1>>} @@ t2 :> {<<"BIF", 0>>, <<"STA", 0>>}
\* Both batteries, one; no two statuses have a byte in common.
MCStatuses == {<< <<1, 26>>, <<2, 42>> >>, << <<3, 17>> >>}
\* Two attributes, of different lengths.
Cell1 == [id |-> 1, texts |-> <<<<NL>>, <<20, NL>>>>]
Cell2 == [id |-> 2, texts |-> <<<<20, 21, NL>>, <<22, NL>>>>]
\* A battery whose driver has no file for the first attribute.
Cell3 == [id |-> 3, texts |-> << << >>, <<22, NL>>>>]
MCInfos == {<<Cell3>>, <<Cell1, Cell2>>}
MCInfosLines == {<<Cell1, Cell2>>}
MCInfosMissing == {<<Cell3>>, <<Cell1>>}
MCOneCall == t1 :> {<<"BST", 0>>, <<"BIF", 0>>, <<"STA", 0>>} @@ t2 :> {}
MCBothInfos == t1 :> {<<"BIF", 0>>} @@ t2 :> {<<"BIF", 1>>}
=============================================================================
