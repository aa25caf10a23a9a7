--------------------------- MODULE MCLocalDatabase ---------------------------
(* TLC instance of the local database: scenarios over the symbols, a       *)
(* complete one, one without a closing quote, one without signals and one  *)
(* whose preconditions fail; the fixture trades one symbol.                *)
EXTENDS LocalDatabase

MCPositionOf ==
  CHOOSE f \in [Symbols -> PositionIds] : \A s, t \in Symbols : f[s] = f[t] => s = t
MCBrokerIds == Symbols \cup PositionIds

MCFixture == SubSeq(SetToSeq(Symbols), 1, 1)

MCScenario(ok, signals, closing) ==
  [preconditions |-> ok, signals |-> signals, quoted |-> Symbols, eligible |-> Symbols,
   closing_quotes |-> closing]

MCScenarios ==
  {MCScenario(TRUE, SetToSeq(Symbols), Symbols), MCScenario(TRUE, SetToSeq(Symbols), {}),
   MCScenario(FALSE, SetToSeq(Symbols), Symbols),
   [MCScenario(TRUE, SetToSeq(Symbols), Symbols) EXCEPT !.quoted = {}],
   [MCScenario(TRUE, SetToSeq(Symbols), Symbols) EXCEPT !.eligible = {}]}

=============================================================================
