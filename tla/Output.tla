-------------------------------- MODULE Output --------------------------------
(* A lattice as its results are filled in and written out (LatticeImpl in   *)
(* tagger.cpp): set_sentence and an analysis, set_result, toString in its   *)
(* four forms and enumNBestAsString.  What the calls allocate comes from    *)
(* FreeLists, one allocation per step: a text that outlives the clear of    *)
(* its lattice may be overwritten by the next allocations.                 *)
EXTENDS FreeLists, Writer, Ordered

CONSTANTS
  Confs,     \* options the lattice's model may have been opened with
  Analyses,  \* sentences with the paths an analysis finds, best first
  Results,   \* texts callers pass to set_result
  Sizes,     \* the sizes of buffers of callers
  MaxCalls,  \* calls that fill the lattice
  LengthMax, \* what the length of a node can be, 65535 in the code
  NBEST_MAX

VARIABLES
  writer,     \* the Writer of the model, or None for createLattice()
  allocates,  \* MECAB_ALLOCATE_SENTENCE or MECAB_PARTIAL is requested
  sentence,   \* sentence_: None, Caller or a block of the lattice's memory
  text,       \* what is there
  path,       \* BOS, the tokens and EOS as linked by next
  end_nodes,  \* position -> index in the first path of the last node filed, or 0
  job,        \* the call that fills the lattice, or NoJob
  calls,      \* such calls begun
  buffer,     \* the cells of ostrs_; its text is cleared before every use
  answer,     \* what the last output call returned
  results     \* the paths next() has still to give

latticeVars == <<sentence, text, path, end_nodes, job, results>>
vars == <<memoryVars, latticeVars, writer, allocates, calls, buffer, answer>>

None == [in |-> "none"]
Caller == [in |-> "caller"]
Here(b) == [in |-> "memory", block |-> b]
NoJob == [is |-> "none"]
NoAnswer == [is |-> "none"]
Died == [is |-> "died"]
Threw == [is |-> "threw"]
OverrunAnswer == [is |-> "overrun"]
BosNode ==
  [stat |-> "BOS", surface |-> <<>>, space |-> <<>>, feature |-> <<"B">>, paths |-> <<>>, likely |-> FALSE]
EosNode == [BosNode EXCEPT !.stat = "EOS"]

(* What analyses find: BOS, words that are not empty, EOS; and what callers *)
(* pass: texts.  BUF_SIZE leaves room for more than an empty text.  Formats *)
(* are texts and macros; %f has columns and %pp a text between two paths.   *)
(* A node is likely if its prob is not below that of em, and so is a link,  *)
(* which has the feature of its left node.  The node of an EON has neither  *)
(* a feature nor a prev, that of a BOS no prev: its format names none of    *)
(* what would be read there.                                               *)
Links == [feature : Seq(STRING), likely : BOOLEAN]
Nodes ==
  [stat : {"NOR", "UNK", "BOS", "EOS"}, surface : Seq(STRING), space : Seq(STRING), feature : Seq(STRING),
   paths : Seq(Links), likely : BOOLEAN]
IsPath(p) ==
  /\ Len(p) >= 2 /\ p[1] \in {[BosNode EXCEPT !.likely = l] : l \in BOOLEAN} /\ p[Len(p)].stat = "EOS"
  /\ \A i \in 2 .. Len(p) - 1 : p[i].stat \notin {"BOS", "EOS"} /\ p[i].surface # <<>>
Paths == {p \in Seq(Nodes) : IsPath(p)}
Elements ==
  [is : {"text"}, text : STRING] \cup [is : {"f"}, columns : Seq(Nat), separator : STRING]
    \cup [is : {"pp"}, separator : STRING, real : BOOLEAN] \cup [is : STRING \ {"text", "f", "pp"}]
ASSUME InputsAssumption ==
  /\ \A a \in Analyses : a.text \in Seq(STRING) /\ a.paths \in Seq(Paths)
  /\ Results \subseteq Seq(STRING) /\ ChunkMin > 2 /\ NBEST_MAX \in Nat
  /\ Sizes \subseteq Nat /\ MaxCalls \in Nat /\ LengthMax \in Nat
  /\ Leftovers \subseteq Seq(STRING)
ASSUME ConfsAssumption ==
  \A c \in Confs : \A k \in DOMAIN c : k[1] # "output-format-type" =>
    /\ c[k] \in Seq(Elements)
    /\ k[1] = "eon-format" => \A i \in DOMAIN c[k] : c[k][i].is \notin {"H", "f"}
-----------------------------------------------------------------------------
Init ==
  /\ MemoryInit
  /\ writer \in {None} \cup {OpenWriter(c).conf : c \in {d \in Confs : OpenWriter(d) # Refused}}
  /\ allocates \in BOOLEAN
  /\ sentence = None /\ text = <<>> /\ path = <<>> /\ end_nodes = <<>>
  /\ job = NoJob /\ calls = 0 /\ buffer = 0 /\ answer = NoAnswer /\ results = <<>>

Runs == answer \notin {Died, OverrunAnswer}
Fills == job = NoJob /\ calls < MaxCalls /\ Runs
Stage(name) == job.is # "none" /\ job.stage = name /\ Runs
KeepOutput == UNCHANGED <<writer, allocates, calls, buffer, answer>>

(* clear() and the rest of set_sentence: positions 0 .. len + 3, no node.    *)
Cleared(t) ==
  /\ FreeAll
  /\ text' = t /\ path' = <<>> /\ end_nodes' = [p \in 0 .. Len(t) + 3 |-> 0] /\ results' = <<>>

(* set_sentence by the caller, then an analysis.                             *)
SetSentence(a) ==
  /\ Fills /\ calls' = calls + 1 /\ Cleared(a.text) /\ sentence' = Caller
  /\ job' = [is |-> "analysis", stage |-> IF allocates THEN "copy" ELSE "ready", paths |-> a.paths]
  /\ answer' = NoAnswer /\ UNCHANGED <<writer, allocates, buffer>>

(* set_result copies the text and the sentence it spells and passes the     *)
(* copy of the sentence, which is in the lattice's own memory, to           *)
(* set_sentence.                                                            *)
SplitAfter(t, separator, most) ==  \* a fault: pieces begin with the separator
  LET ends == InOrder({i \in DOMAIN t : t[i] = separator} \cup {Len(t) + 1}, <)
      Piece(k) == SubSeq(t, IF k = 1 THEN 1 ELSE ends[k - 1], ends[k] - 1)
  IN  [k \in 1 .. (IF Len(ends) < most THEN Len(ends) ELSE most) |-> Piece(k)]
Split(t, separator, most) ==
  LET ends == InOrder({i \in DOMAIN t : t[i] = separator} \cup {Len(t) + 1}, <)
      Piece(k) == SubSeq(t, IF k = 1 THEN 1 ELSE ends[k - 1] + 1, ends[k] - 1)
  IN  [k \in 1 .. (IF Len(ends) < most THEN Len(ends) ELSE most) |-> Piece(k)]
EntriesOf(t) ==
  LET lines == Split(t, "\n", Len(t))
      stops == {i \in DOMAIN lines : lines[i] = <<"EOS">> \/ Len(Split(lines[i], "\t", 2)) < 2}
      n == IF stops = {} THEN Len(lines) ELSE (CHOOSE i \in stops : \A k \in stops : i <= k) - 1
  IN  [i \in 1 .. n |-> LET cols == Split(lines[i], "\t", 2)
                        IN  [surface |-> cols[1], feature |-> cols[2]]]
SetResultInPlace(result) ==  \* a fault: the text is not copied
  /\ Fills /\ calls' = calls + 1
  /\ job' = [is |-> "result", stage |-> "sentence", entries |-> EntriesOf(result)]
  /\ answer' = NoAnswer
  /\ UNCHANGED <<memoryVars, sentence, text, path, end_nodes, results, writer, allocates, buffer>>
SetResult(result) ==
  /\ Fills /\ calls' = calls + 1
  /\ AllocText(Len(result) + 2)
  /\ job' = [is |-> "result", stage |-> "sentence", entries |-> EntriesOf(result)]
  /\ answer' = NoAnswer
  /\ UNCHANGED <<nodes, cells, sentence, text, path, end_nodes, results, writer, allocates, buffer>>

Spelled(entries) == FlattenSeq([i \in DOMAIN entries |-> entries[i].surface])
CopySentence ==
  /\ Stage("sentence")
  /\ AllocText(Len(Spelled(job.entries)) + 2)
  /\ sentence' = Here(NextBlock(Len(Spelled(job.entries)) + 2))
  /\ job' = [job EXCEPT !.stage = "set"]
  /\ UNCHANGED <<nodes, cells, text, path, end_nodes, results>> /\ KeepOutput
SetOwnSentence ==
  /\ Stage("set") /\ Cleared(Spelled(job.entries))
  /\ job' = [job EXCEPT !.stage = IF allocates THEN "copy" ELSE "ready"]
  /\ UNCHANGED sentence /\ KeepOutput

(* The copy that set_sentence makes when it is asked for one.                *)
CopyIn ==
  /\ Stage("copy")
  /\ AllocText(Len(text) + 2) /\ sentence' = Here(NextBlock(Len(text) + 2))
  /\ job' = [job EXCEPT !.stage = "ready"]
  /\ UNCHANGED <<nodes, cells, text, path, end_nodes, results>> /\ KeepOutput

(* An analysis links its best path; without one BOS has no successor.  If   *)
(* MECAB_NBEST is requested next() gives this path and the others.  The     *)
(* features belong to the dictionary.                                      *)
EndsOf(p) ==
  LET At(i) == Len(FlattenSeq([k \in 1 .. i |-> p[k].space \o p[k].surface]))
  IN  [q \in DOMAIN end_nodes |->
         LET here == {i \in DOMAIN p : p[i].stat # "EOS" /\ At(i) = q}
         IN  IF here = {} THEN 0 ELSE CHOOSE i \in here : \A k \in here : k <= i]
Analyze ==
  /\ job.is = "analysis" /\ Stage("ready")
  /\ path' = IF job.paths = <<>> THEN <<BosNode>> ELSE Head(job.paths)
  /\ end_nodes' = EndsOf(path')
  /\ results' \in {job.paths, <<>>} /\ job' = NoJob
  /\ NewNode
  /\ UNCHANGED <<chunks, at, given, stale, sentence, text>> /\ KeepOutput

(* BOS and EOS are made, then a node and a copy of its feature per entry,   *)
(* at last EOS is linked.  A surface too long for the length of a node ends *)
(* the call by an exception: the node is linked, EOS is not.  What is then  *)
(* written of the lattice is not modelled, only that it is filled again.   *)
ResultBosUnfiled ==  \* a fault: BOS is in no list of nodes
  /\ job.is = "result" /\ Stage("ready")
  /\ NewNode /\ path' = <<BosNode>>
  /\ job' = [job EXCEPT !.stage = "eos"]
  /\ UNCHANGED <<chunks, at, given, stale, sentence, text, end_nodes, results>> /\ KeepOutput
ResultBos ==
  /\ job.is = "result" /\ Stage("ready")
  /\ NewNode /\ path' = <<BosNode>> /\ end_nodes' = [end_nodes EXCEPT ![0] = 1]
  /\ job' = [job EXCEPT !.stage = "eos"]
  /\ UNCHANGED <<chunks, at, given, stale, sentence, text, results>> /\ KeepOutput
ResultEos ==
  /\ Stage("eos") /\ NewNode
  /\ job' = [job EXCEPT !.stage = "entries"]
  /\ UNCHANGED <<chunks, at, given, stale, sentence, text, path, end_nodes, results>> /\ KeepOutput
NextEntry ==
  LET i == Len(path)
      e == job.entries[i]
      to == Len(Spelled(SubSeq(job.entries, 1, i)))
  IN  /\ Stage("entries") /\ i <= Len(job.entries) /\ Len(e.surface) <= LengthMax
      /\ NewNode /\ AllocText(Len(e.feature) + 2)
      /\ path' = Append(path, [BosNode EXCEPT !.stat = "NOR", !.surface = e.surface, !.feature = e.feature])
      /\ end_nodes' = [end_nodes EXCEPT ![to] = i + 1]
      /\ UNCHANGED <<sentence, text, results, job>> /\ KeepOutput
EntryTooLong ==
  /\ Stage("entries") /\ Len(path) <= Len(job.entries)
  /\ Len(job.entries[Len(path)].surface) > LengthMax
  /\ NewNode /\ path' = Append(path, [BosNode EXCEPT !.stat = "NOR", !.surface = <<>>, !.feature = <<>>])
  /\ job' = NoJob /\ answer' = Threw
  /\ UNCHANGED <<chunks, at, given, stale, sentence, text, end_nodes, results>>
  /\ UNCHANGED <<writer, allocates, calls, buffer>>
LinkEos ==
  /\ Stage("entries") /\ Len(path) > Len(job.entries)
  /\ path' = Append(path, EosNode) /\ job' = NoJob
  /\ UNCHANGED <<memoryVars, sentence, text, end_nodes, results>> /\ KeepOutput
-----------------------------------------------------------------------------
(* bos_node() is end_nodes_[0].  Without an analysis, or after one that has *)
(* failed, nothing follows it, which all styles but three read.            *)
FromBos == IF end_nodes = <<>> \/ end_nodes[0] = 0 THEN <<>> ELSE SubSeq(path, end_nodes[0], Len(path))
Style == IF writer = None THEN [write |-> "lattice"] ELSE writer
Unavailable == writer # None /\ sentence = None
Dies == ~Unavailable /\ Len(FromBos) < 2 /\ Style.write \notin {"none", "em", "dump"}

(* The end of every call: the writes, a terminating 0, and what str() says. *)
Own == [own |-> TRUE, alloc |-> buffer, text |-> <<>>, error |-> FALSE]
Fixed(n) == [own |-> FALSE, alloc |-> n, text |-> <<>>, error |-> FALSE]
Into(b, writes) ==
  LET ws == Append(writes, <<"0">>)
      c[i \in 0 .. Len(ws)] == IF i = 0 THEN b ELSE Put(c[i - 1], ws[i], ChunkMin)
  IN  c[Len(ws)]
Respond(w, of) ==
  \E b \in {Own} \cup {Fixed(n) : n \in Sizes} :
    LET c == Into(b, w.writes)
    IN  /\ buffer' = IF b.own /\ w.ok THEN c.alloc ELSE buffer
        /\ answer' = IF ~w.ok /\ w.what = Overrun THEN OverrunAnswer
                     ELSE IF ~w.ok THEN [is |-> "null", what |-> w.what]
                     ELSE IF c.error THEN [is |-> "null", what |-> "output buffer overflow"]
                     ELSE [is |-> "text", of |-> of, own |-> b.own, text |-> c.text,
                           whole |-> FlattenSeq(w.writes) \o <<"0">>]
Calling == (job = NoJob \/ (job.is = "analysis" /\ Stage("ready"))) /\ answer = NoAnswer
KeepLattice == UNCHANGED <<memoryVars, sentence, text, path, end_nodes, job, writer, allocates, calls>>

ToStringCall ==
  /\ Calling
  /\ IF Dies THEN answer' = Died /\ UNCHANGED buffer
     ELSE \E real \in Reals :
            Respond(IF Unavailable THEN Failed("") ELSE Write(Style, FromBos, text, real), "path")
  /\ KeepLattice /\ UNCHANGED results

(* toString(node) of a node, or of null.                                     *)
NodeLine(n, real) ==
  IF writer = None THEN Written(<< n.surface, <<"\t">>, n.feature >>) ELSE WriteNode(writer, n, text, real)
ToStringNode ==
  /\ Calling /\ path # <<>>
  /\ \E i \in 0 .. Len(path), real \in Reals :
       Respond(IF i = 0 THEN Failed("node is NULL") ELSE NodeLine(path[i], real), "node")
  /\ KeepLattice /\ UNCHANGED results

(* enumNBestAsString: up to n results, one after the other, and an EON.      *)
(* What next() gives where no analysis of this text has been asked for      *)
(* results, after one of an earlier text has, is in LatticeSession.         *)
EonNode == [EosNode EXCEPT !.stat = "EON", !.feature = <<>>]
EnumNBestAsString(n) ==
  LET k == IF n < Len(results) THEN n ELSE Len(results)
      Lists(real) == [i \in 1 .. k |-> Write(Style, results[i], text, real)]
      Eon(real) == IF writer = None THEN Written(<<>>) ELSE WriteNode(writer, EonNode, text, real)
      Taken(real) ==
        LET failed == {i \in 1 .. k : ~Lists(real)[i].ok}
        IN  IF failed = {} THEN k ELSE CHOOSE i \in failed : \A j \in failed : i <= j
  IN  /\ Calling
      /\ IF n = 0 \/ n > NBEST_MAX
         THEN /\ Respond(Failed("nbest size must be 1 <= nbest <= 512"), "list")
              /\ UNCHANGED <<results, path>>
         ELSE /\ results # <<>> \/ calls <= 1
              /\ \E real \in Reals :
                   /\ Respond(AllOf(Append(Lists(real), Eon(real))), "list")
                   /\ results' = SubSeq(results, Taken(real) + 1, Len(results))
                   /\ path' = IF k = 0 THEN path ELSE results[Taken(real)]
      /\ UNCHANGED <<memoryVars, sentence, text, end_nodes, job, writer, allocates, calls>>

(* The caller has read the answer.                                           *)
Read == Runs /\ answer \notin {NoAnswer, Threw} /\ answer' = NoAnswer
        /\ UNCHANGED <<memoryVars, latticeVars, writer, allocates, calls, buffer>>

Next ==
  \/ \E a \in Analyses : SetSentence(a)
  \/ \E r \in Results : SetResult(r)
  \/ CopySentence \/ SetOwnSentence \/ CopyIn \/ Analyze \/ ResultBos \/ ResultEos \/ NextEntry
  \/ EntryTooLong \/ LinkEos
  \/ ToStringCall \/ ToStringNode \/ (\E n \in 0 .. NBEST_MAX + 1 : EnumNBestAsString(n)) \/ Read

Spec == Init /\ [][Next]_vars
-----------------------------------------------------------------------------
(* toString never writes behind its own buffer, bos_node() is in the path.  *)
TypeOK ==
  /\ InsideChunks
  /\ sentence.in \in {"none", "caller", "memory"} /\ calls \in 0 .. MaxCalls
  /\ end_nodes # <<>> => end_nodes[0] \in 0 .. Len(path)
  /\ buffer \in Nat /\ (answer.is = "text" /\ answer.own => Len(answer.text) < buffer)

(* The sentence of a lattice stays what it was, although set_result copies  *)
(* it into memory that set_sentence frees while it is in use and the copies *)
(* of the features come from the same memory (tagger.cpp:771, 802); only    *)
(* the next set_result may overwrite it before it has a sentence of its own.*)
(* Where set_sentence copies it again the two copies do not overlap.        *)
SentenceKept ==
  (sentence.in = "memory" /\ ~Stage("sentence")) =>
    /\ sentence.block \in stale \cup {given[i] : i \in DOMAIN given}
    /\ (job.is = "result" /\ Stage("copy")) => Apart(sentence.block, NextBlock(Len(text) + 2))

(* set_result understands what toString writes: the text of the default     *)
(* style gives the tokens of the path again, if no surface is empty and     *)
(* neither surfaces nor features have a tab or a newline                   *)
(* (tagger.cpp:755-767, 815, 828).                                         *)
Clean(t) == \A i \in DOMAIN t : t[i] \notin {"\t", "\n"}
Tokens == [i \in 1 .. Len(path) - 2 |-> [surface |-> path[i + 1].surface, feature |-> path[i + 1].feature]]
ReadsBack ==
  (/\ answer.is = "text" /\ answer.of = "path" /\ Style.write = "lattice" /\ answer.own
   /\ \A i \in DOMAIN Tokens :
        Tokens[i].surface # <<>> /\ Clean(Tokens[i].surface) /\ Clean(Tokens[i].feature))
     => EntriesOf(answer.text) = Tokens

(* No output call reads through a null pointer on a lattice that has a      *)
(* result: bos_node() is found at the first position whatever is filed      *)
(* there after it (tagger.cpp:786, 804, writer.cpp:119).                   *)
DiesWithoutResult == answer = Died => path = <<>> \/ path[Len(path)].stat # "EOS"

(* "output buffer overflow" (tagger.cpp:844): a text that did not fit into  *)
(* the caller's buffer is not returned as if it had.                       *)
OverflowReported == answer.is = "text" => answer.text = answer.whole
=============================================================================
