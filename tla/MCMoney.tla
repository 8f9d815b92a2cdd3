------------------------------- MODULE MCMoney -------------------------------
(* Money for TLC, with a precision of two digits where the code has forty. *)
EXTENDS Money

\* Code points: USD, JPY, XAU; as they are, in small letters, and "u\u017fd" with a long s.
USD == <<85, 83, 68>>
JPY == <<74, 80, 89>>

MCTable == {[alpha |-> USD, numeric |-> 840, minorUnits |-> 1],
            [alpha |-> JPY, numeric |-> 392, minorUnits |-> 0]}

MCTexts == {Text(<<117, 115, 68>>, TRUE), Text(JPY, FALSE), Text(<<117, 383, 100>>, FALSE),
            Text(<<88, 65, 85>>, FALSE), Text(<<85, 83>>, FALSE), Text(<<85, 83, 68, 68>>, TRUE)}

MCLimit == [amount |-> Normal(31, -1), currency |-> USD]

Signed(coef, exp) == [coef |-> coef, exp |-> exp]

MCInputs ==
  {NotANumber, Signed(-5, 0), Signed(5, -2)}
    \cup {Normal(n, exp) : n \in {0, 1, 3, 5, 7, 15, 25, 31, 46, 47, 62, 93, 99}, exp \in {-1, 0}}

MCRates ==
  {NotANumber, Signed(0, 0), Signed(-3, 0), Signed(111, 0)}
    \cup {Normal(n, exp) : n \in {1, 2, 3, 5, 7, 15, 31, 49}, exp \in {-1, 0}}
=============================================================================
