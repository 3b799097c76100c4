-------------------------- MODULE MCLoaderUpdate --------------------------
(***************************************************************************)
(* The client installs image A, of two double words in two pages, over B.  *)
(***************************************************************************)
EXTENDS LoaderUpdate, TLC

CONSTANTS A, B, va, vb, x, s1

MCData    == {va, vb, x, Blank}
MCSize    == (A :> 2) @@ (B :> 1)
MCContent == (A :> (0 :> va @@ 1 :> x)) @@ (B :> (0 :> vb))
MCReset   == (va :> 1) @@ (vb :> 0)
MCPageOf  == (0 :> 0) @@ (1 :> 1)
MCFactory == {(0 :> vb) @@ (1 :> Blank)}

Plain(op, q) == [op |-> op, seq |-> q, framed |-> TRUE,
                 session |-> IF op \in Queries THEN NoSession ELSE s1]
ProgramA(q, o, v) == [op |-> "PROGRAM", seq |-> q, session |-> s1, framed |-> TRUE,
                      offset |-> o, data |-> <<v>>]

MCObserver == {Plain("STATUS", 0)}
MCRequests ==
    {Plain("INFO", 1), Plain("UID", 2),
     [op |-> "BEGIN", seq |-> 3, session |-> s1, framed |-> TRUE,
      img |-> A, identity |-> "ours"],
     Plain("ERASE", 4), ProgramA(5, 0, va), ProgramA(5, 1, x), ProgramA(6, 1, x),
     Plain("VERIFY", 6), Plain("VERIFY", 7), Plain("ACTIVATE", 7), Plain("ACTIVATE", 8)}
    \cup MCObserver
=============================================================================
