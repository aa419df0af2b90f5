------------------------------- MODULE TextMap -------------------------------
(***************************************************************************)
(* What parallel parsing promises: the results are those of a loop over    *)
(* the texts.  Each text is dealt with once, in any order, on its own; one *)
(* that cannot be analysed leaves its place empty.                         *)
(***************************************************************************)
EXTENDS Naturals, Sequences

CONSTANTS Texts,   \* the texts
          Token,   \* what a text is made of: a surface with its features
          Kind,    \* text -> whether parse returns "true", "false" or "throws"
          Tokens   \* text -> the tokens of its best path

VARIABLES text, done, results

Alone(t) == IF Kind[t] = "true" THEN Tokens[t] ELSE <<>>

Init ==
  /\ text \in Seq(Texts)
  /\ done = {}
  /\ results = [k \in 1 .. Len(text) |-> <<>>]

Process(k) ==
  /\ k \notin done
  /\ done' = done \cup {k}
  /\ results' = [results EXCEPT ![k] = Alone(text[k])]
  /\ UNCHANGED text

Next == \E k \in 1 .. Len(text) : Process(k)

Spec == Init /\ [][Next]_<<text, done, results>>
=============================================================================
