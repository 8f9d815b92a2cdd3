------------------------- MODULE MCMonobankProvider -------------------------
(* The provider for TLC, with every body of up to three of the items below *)
(* from any upstream, and two fixtures from the mock.                      *)
EXTENDS MockedProvider

MCCodes == {840, 978, 980, 999}
MCTable == {
  [alpha |-> <<85, 83, 68>>, numeric |-> 840, minorUnits |-> 2],
  [alpha |-> <<69, 85, 82>>, numeric |-> 978, minorUnits |-> 2],
  [alpha |-> <<85, 65, 72>>, numeric |-> 980, minorUnits |-> 2] }

MCLastPlain == 9
MCMaxDate == 12

Item(a, b, date, values) ==
  [shaped |-> TRUE, a |-> a, b |-> b, date |-> date, values |-> values]

SomeItems == {
  Item(840, 980, 5, {"rateBuy", "rateSell"}),
  Item(840, 980, 6, {"rateCross"}),
  Item(978, 980, 7, {"rateBuy", "rateSell", "rateCross"}),
  Item(978, 980, 12, {"rateCross"}),
  Item(980, 980, 5, {"rateCross"}),
  Item(999, 980, 5, {"rateCross"}),
  Item(978, 840, 13, {"rateCross"}),
  Item(978, 840, 5, {}),
  [Item(978, 840, 5, {"rateCross"}) EXCEPT !.shaped = FALSE] }

MCBodies == {NotItems} \cup UNION {[1..n -> SomeItems] : n \in 0..3}

MCDefault == <<Item(840, 980, 5, {"rateBuy", "rateSell"})>>
MCFixtures == {MCDefault, <<Item(978, 980, 12, {"rateCross"})>>}
=============================================================================
