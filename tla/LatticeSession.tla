---------------------------- MODULE LatticeSession ----------------------------
(***************************************************************************)
(* Sequences of calls on a lattice, of src/src/tagger.cpp: what a call     *)
(* finds that earlier calls have left.  A caller works with the lattice    *)
(* inside a Tagger through the calls of Tagger, or with a Lattice of its   *)
(* own; the two share nothing, parse(Lattice* ) reads only the model.      *)
(* Analysing a text is Viterbi::analyze seen from outside: it fails, or    *)
(* gives the ways through the text in the order of their costs (see        *)
(* ViterbiLattice and NBest).  How many there are is taken not to depend   *)
(* on the constraints.                                                     *)
(***************************************************************************)
EXTENDS Naturals, Sequences

CONSTANTS
  Texts,          \* what callers hand over as a sentence
  Ways,           \* text -> number of ways through it, 0 if analyze fails
  Thetas,         \* the values callers set
  kDefaultTheta,
  Types,          \* the request types callers combine
  NBEST_MAX,
  NoText, Junk

ASSUME WaysAssumption == Ways \in [Texts -> Nat]
ASSUME ThetaAssumption == kDefaultTheta \in Thetas
ASSUME NoTextAssumption == NoText \notin Texts
ASSUME MaxAssumption == NBEST_MAX \in Nat
ASSUME TypesAssumption == "nbest" \in Types /\ Types \subseteq {"nbest", "partial", "marginal", "all_morphs"}

VARIABLES
  api,      \* which of the two kinds of calls are made
  tagger,   \* TaggerImpl: request_type_, theta_
  lattice,  \* LatticeImpl, with its allocator's NBestGenerator
  asked,    \* what the caller of the last analysis asked for
  answer    \* what the last call returned: the results that can be read

vars == <<api, tagger, lattice, asked, answer>>

(* Of the lattice: the constraints by the sentence they were set for;      *)
(* whether end_nodes_ holds nodes (filed), and of more than one analysis   *)
(* (stacked); the agenda by the sentence it was set for, how many results  *)
(* have come out of it, and whether its nodes are still allocated (live);  *)
(* the normalisation by the theta it was computed with.                    *)
NewLattice ==
  [sentence |-> NoText, request_type |-> {}, theta |-> kDefaultTheta, constraints |-> NoText,
   filed |-> FALSE, stacked |-> FALSE,
   agenda |-> NoText, popped |-> 0, live |-> FALSE, Z |-> kDefaultTheta]

NotAsked == [request_type |-> {}, theta |-> kDefaultTheta, ok |-> FALSE, served |-> 0]

Answer(call, n, reads) == [call |-> call, n |-> n, reads |-> reads]
NoAnswer == Answer("none", 0, <<>>)

Init ==
  /\ api \in {"Tagger", "Lattice"}
  /\ tagger = [request_type |-> {}, theta |-> kDefaultTheta]
  /\ lattice = NewLattice
  /\ asked = NotAsked
  /\ answer = NoAnswer
-----------------------------------------------------------------------------
(* clear(): the nodes go back to the allocator, the agenda is not emptied. *)
Clear(x) ==
  [x EXCEPT !.sentence = NoText, !.theta = kDefaultTheta, !.Z = kDefaultTheta, !.constraints = NoText,
            !.filed = FALSE, !.stacked = FALSE, !.live = FALSE]

SetSentence(x, t) == [Clear(x) EXCEPT !.sentence = t]

(* initPartial sets the text without its markup as the sentence and the    *)
(* constraints the markup stands for.                                      *)
InitPartial(x) ==
  IF "partial" \in x.request_type
  THEN [SetSentence(x, x.sentence) EXCEPT !.constraints = x.sentence]
  ELSE x

InitNBestOntoOld(x) ==  \* a fault: the agenda not emptied
  IF "nbest" \in x.request_type
  THEN [x EXCEPT !.agenda = x.sentence, !.live = TRUE]
  ELSE x

InitNBestIfEmpty(x) ==  \* a fault: set only when nothing is left
  IF "nbest" \in x.request_type /\ (x.agenda = NoText \/ x.popped = Ways[x.agenda])
  THEN [x EXCEPT !.agenda = x.sentence, !.popped = 0, !.live = TRUE]
  ELSE [x EXCEPT !.live = TRUE]

InitNBest(x) ==
  IF "nbest" \in x.request_type
  THEN [x EXCEPT !.agenda = x.sentence, !.popped = 0, !.live = TRUE]
  ELSE x

Forwardbackward(x) ==
  IF "marginal" \in x.request_type THEN [x EXCEPT !.Z = x.theta] ELSE x

(* analyze: on a lattice that was analysed before without a set_sentence   *)
(* in between, the new nodes come on top of the old ones in end_nodes_.    *)
Filed(x) == [x EXCEPT !.stacked = x.filed, !.filed = TRUE]

Succeeds(x) == x.sentence # NoText /\ Ways[x.sentence] > 0

Analyzed(x) ==
  IF x.sentence = NoText THEN x
  ELSE LET y == Filed(InitPartial(x))
       IN  IF Succeeds(x) THEN InitNBest(Forwardbackward(y)) ELSE y

(* What can be read from bos_node(): the list of all morphs if requested,  *)
(* whatever result the links were set for.                                 *)
Reads(x, rank) == <<x.sentence, IF "all_morphs" \in x.request_type THEN 0 ELSE rank>>

(* next(): the lattice after it with what it makes readable.  Nodes that   *)
(* are no longer allocated are reused: what the agenda then does with them *)
(* is anybody's guess; so is which result repeats on a stacked lattice.    *)
Left(x) == IF x.agenda = NoText THEN 0 ELSE Ways[x.agenda] - x.popped

NextResults(x) ==
  IF "nbest" \notin x.request_type \/ Left(x) = 0 THEN {[x |-> x, reads |-> <<>>]}
  ELSE LET popped == [x EXCEPT !.popped = @ + 1]
       IN  IF ~x.live
           THEN {[x |-> [x EXCEPT !.popped = Ways[x.agenda]], reads |-> <<>>],
                 [x |-> x, reads |-> << <<Junk, 0>> >>]}
           ELSE IF x.stacked
           THEN {[x |-> y, reads |-> <<Reads(x, r)>>] : y \in {x, popped}, r \in 1 .. Ways[x.agenda]}
           ELSE {[x |-> popped, reads |-> <<Reads(x, x.popped + 1)>>]}

(* enumNBestAsString(N) after an analysis: next() N times at most.         *)
Least(m, n) == IF m <= n THEN m ELSE n
Listable(n) == n \in 1 .. NBEST_MAX

EnumeratedLess(x, n) ==  \* a fault: the first result counted, not listed
  LET count == IF Listable(n) THEN Least(n - 1, Left(x)) ELSE 0
  IN  [x |-> [x EXCEPT !.popped = @ + count],
       reads |-> [i \in 1 .. count |-> Reads(x, x.popped + i)]]

Enumerated(x, n) ==
  LET count == IF Listable(n) THEN Least(n, Left(x)) ELSE 0
  IN  [x |-> [x EXCEPT !.popped = @ + count],
       reads |-> [i \in 1 .. count |-> Reads(x, x.popped + i)]]
-----------------------------------------------------------------------------
(* The setters of Tagger change what its next call asks for. *)
TaggerSets(types, theta) ==
  /\ api = "Tagger"
  /\ tagger' = [request_type |-> types, theta |-> theta]
  /\ answer' = NoAnswer
  /\ UNCHANGED <<api, lattice, asked>>

With(types, type, on) == IF on THEN types \cup ({type} \cap Types) ELSE types \ {type}

SetRequestType == \E types \in SUBSET Types : TaggerSets(types, tagger.theta)
SetPartial   == \E on \in BOOLEAN : TaggerSets(With(tagger.request_type, "partial", on), tagger.theta)
SetAllMorphs == \E on \in BOOLEAN : TaggerSets(With(tagger.request_type, "all_morphs", on), tagger.theta)
SetLatticeLevel ==  \* only ever adds; level 0 is the one-best that is always there
  \E type \in {"none", "nbest", "marginal"} :
     TaggerSets(With(tagger.request_type, type, TRUE), tagger.theta)
SetTheta == \E theta \in Thetas : TaggerSets(tagger.request_type, theta)

(* initRequestType, add_request_type and set_sentence, as all calls that   *)
(* parse a string begin.                                                   *)
InitRequestTypeAdding(x) ==  \* a fault
  [x EXCEPT !.request_type = @ \cup tagger.request_type, !.theta = tagger.theta]

InitRequestType(x) ==
  [x EXCEPT !.request_type = tagger.request_type, !.theta = tagger.theta]

OwnAnalyzed(t, added) ==
  LET x == InitRequestType(lattice)
  IN  Analyzed(SetSentence([x EXCEPT !.request_type = @ \cup added], t))

AsksOwn(t, added, served) ==
  /\ api = "Tagger"
  /\ asked' = [request_type |-> tagger.request_type \cup added, theta |-> tagger.theta,
               ok |-> Ways[t] > 0, served |-> served]
  /\ UNCHANGED <<api, tagger>>

(* parse(str) and parseToNode(str). *)
Parse(t) ==
  /\ AsksOwn(t, {}, 0)
  /\ lattice' = OwnAnalyzed(t, {})
  /\ answer' = Answer("parse", 1, IF Ways[t] > 0 THEN <<Reads(lattice', 1)>> ELSE <<>>)

ParseNBestInit(t) ==
  /\ AsksOwn(t, {"nbest"}, 0)
  /\ lattice' = OwnAnalyzed(t, {"nbest"})
  /\ answer' = NoAnswer

ParseNBestOf(t, n, found) ==
  /\ AsksOwn(t, {"nbest"}, Len(found.reads))
  /\ lattice' = found.x
  /\ answer' = IF Ways[t] > 0 /\ Listable(n) THEN Answer("enum", n, found.reads) ELSE NoAnswer

ParseNBest(t, n) ==
  LET x == OwnAnalyzed(t, {"nbest"})
  IN  ParseNBestOf(t, n, IF Ways[t] > 0 THEN Enumerated(x, n) ELSE [x |-> x, reads |-> <<>>])
-----------------------------------------------------------------------------
(* The calls of Lattice. *)
LatticeBecomes(x) ==
  /\ api = "Lattice"
  /\ lattice' = x
  /\ UNCHANGED <<api, tagger>>

LatticeSetSentence(t) == LatticeBecomes(SetSentence(lattice, t)) /\ asked' = NotAsked /\ answer' = NoAnswer
LatticeClear == LatticeBecomes(Clear(lattice)) /\ asked' = NotAsked /\ answer' = NoAnswer
LatticeSets(x) == LatticeBecomes(x) /\ answer' = NoAnswer /\ UNCHANGED asked
LatticeSetRequestType(types) == LatticeSets([lattice EXCEPT !.request_type = types])
LatticeSetTheta(theta) == LatticeSets([lattice EXCEPT !.theta = theta])

(* set_boundary_constraint, set_feature_constraint. *)
LatticeSetConstraint ==
  /\ lattice.sentence # NoText
  /\ LatticeSets([lattice EXCEPT !.constraints = lattice.sentence])

(* Tagger::parse(Lattice* ); on a stacked lattice the best path may run    *)
(* through what was filed before.                                          *)
ParseLattice ==
  /\ LatticeBecomes(Analyzed(lattice))
  /\ asked' = [request_type |-> lattice.request_type, theta |-> lattice.theta,
               ok |-> Succeeds(lattice), served |-> 0]
  /\ answer' \in IF Succeeds(lattice)
                 THEN {Answer("parse", 1, <<Reads(lattice', r)>>) :
                         r \in IF lattice'.stacked THEN 1 .. Ways[lattice.sentence] ELSE {1}}
                 ELSE {Answer("parse", 1, <<>>)}

(* nextNode() and next() of Tagger, next() of Lattice. *)
NextResult ==
  \E r \in NextResults(lattice) :
     /\ lattice' = r.x
     /\ answer' = Answer("next", 1, r.reads)
     /\ asked' = [asked EXCEPT !.served = IF lattice.live /\ ~lattice.stacked THEN @ + Len(r.reads) ELSE @]
     /\ UNCHANGED <<api, tagger>>

Next ==
  \/ SetRequestType \/ SetPartial \/ SetAllMorphs \/ SetLatticeLevel \/ SetTheta
  \/ \E t \in Texts : Parse(t) \/ ParseNBestInit(t) \/ LatticeSetSentence(t)
  \/ \E t \in Texts, n \in 0 .. NBEST_MAX + 1 : ParseNBest(t, n)
  \/ LatticeClear \/ LatticeSetConstraint \/ ParseLattice
  \/ \E types \in SUBSET Types : LatticeSetRequestType(types)
  \/ \E theta \in Thetas : LatticeSetTheta(theta)
  \/ NextResult

Spec == Init /\ [][Next]_vars
-----------------------------------------------------------------------------
LatticeType ==
  [sentence : Texts \cup {NoText}, request_type : SUBSET Types, theta : Thetas,
   constraints : Texts \cup {NoText}, filed : BOOLEAN, stacked : BOOLEAN,
   agenda : Texts \cup {NoText}, popped : Nat, live : BOOLEAN, Z : Thetas]

(* Type invariant; no more results come out of an agenda than it has. *)
TypeOK ==
  /\ api \in {"Tagger", "Lattice"}
  /\ tagger \in [request_type : SUBSET Types, theta : Thetas]
  /\ lattice \in LatticeType
  /\ lattice.agenda = NoText => lattice.popped = 0 /\ ~lattice.live
  /\ lattice.agenda # NoText => lattice.popped <= Ways[lattice.agenda]
  /\ asked \in [request_type : SUBSET Types, theta : Thetas, ok : BOOLEAN, served : Nat]
  /\ answer.call \in {"none", "parse", "enum", "next"} /\ answer.n \in Nat

Result(rank) == Reads(lattice, rank)

(* The N-best results of a sentence were asked for with an analysis of it  *)
(* that succeeded, the first one since set_sentence.                       *)
Enumerating == asked.ok /\ "nbest" \in asked.request_type /\ ~lattice.stacked

(* next() then gives the results of this sentence in order, the best one   *)
(* first, and is false only when all have come; whatever the lattice was   *)
(* used for before.                                                        *)
ServesSentence ==
  Enumerating /\ answer.call = "next" =>
    IF answer.reads = <<>>
    THEN "nbest" \in lattice.request_type => asked.served = Ways[lattice.sentence]
    ELSE answer.reads = <<Result(asked.served)>>

(* parseNBest(N, str) lists the first N results, or all if there are fewer.*)
ListsFirstN ==
  answer.call = "enum" =>
    /\ Len(answer.reads) = Least(answer.n, Ways[lattice.sentence])
    /\ \A i \in DOMAIN answer.reads : answer.reads[i] = Result(i)

(* What an earlier call of a tagger asked for is not asked for by a later   *)
(* one, although they share a lattice: next() gives nothing after a call   *)
(* that did not ask for N-best results, although the lattice may have had  *)
(* the request type before and has an agenda (tagger.cpp:178, 733).        *)
(* Constraints never outlive their sentence.  Where N-best results are     *)
(* asked for it says nothing: between clear() or a new sentence, or an     *)
(* analysis that failed, and the next one that succeeds, the code serves   *)
(* the agenda of an earlier text, although clear() is to "Clear all        *)
(* internal lattice data" (mecab.h:828) and next() to be false "if no more *)
(* results are available" (mecab.h:937).                                   *)
NoResultUnasked ==
  /\ api = "Tagger" /\ answer.call = "next" /\ answer.reads # <<>> =>
       "nbest" \in asked.request_type
  /\ lattice.constraints \in {NoText, lattice.sentence}

(* "set temparature parameter theta": marginal probabilities are computed  *)
(* with the theta of the tagger, or of the lattice, that was set before.   *)
ThetaHonoured ==
  answer.call = "parse" /\ asked.ok /\ "marginal" \in asked.request_type =>
    lattice.Z = asked.theta
=============================================================================
