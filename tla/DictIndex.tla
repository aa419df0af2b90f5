------------------------------ MODULE DictIndex ------------------------------
(* Building dictionaries (dictionary_compiler.cpp) and opening what was     *)
(* built (Tokenizer::open, Viterbi::open, the open of each file).          *)
(*                                                                         *)
(* dict_index_sys writes char.bin, unk.dic, sys.dic and matrix.bin into its *)
(* output directory, one after the other; dict_index_user takes that as its *)
(* dictionary and writes one user dictionary.  Each file is truncated,      *)
(* written and only then recognisable: a dictionary gets its magic number   *)
(* last, the size of the two tables is wrong until their last byte.  A      *)
(* failed check ends the run with the files it has written so far, the      *)
(* death of the process at any point as well; a write that fails is not     *)
(* noticed, and the run goes on.                                           *)
EXTENDS Lexicon, Options

CONSTANTS
  Sources,    \* contents the source directory may have
  Again,      \* those that are also built twice, edited, interrupted and refused by the disk
  MaxFull,    \* bound: how many files have suffered a failed write at a time
  RCharset    \* the encoding argument of the R functions

(* Words are sequences of bytes, the sizes of a matrix are unsigned.        *)
Bytes == 0 .. MaxByte
IsText(file) ==
  file \in Seq(Range(file)) /\ \A i \in DOMAIN file : file[i].word \in Seq(Bytes)
ASSUME SourcesAssumption ==
  /\ Default \in Seq(Bytes) /\ SpaceName \in Seq(Bytes)
  /\ \A s \in Sources \cup Again :
       /\ s.csv \in Seq(Range(s.csv)) /\ \A i \in DOMAIN s.csv : IsText(s.csv[i])
       /\ \A file \in {s.user_csv, s.unk_def} : file = Missing \/ IsText(file)
       /\ s.apart \in BOOLEAN
       /\ s.matrix_def # Missing /\ HeadReadable(s.matrix_def) =>
            s.matrix_def.lsize \in Nat /\ s.matrix_def.rsize \in Nat
       /\ s.matrix_bin # Missing => s.matrix_bin.lsize \in Nat /\ s.matrix_bin.rsize \in Nat
ASSUME CostMaxAssumption == CostMax \in Nat

VARIABLES
  files,    \* char, unk, sys, matrix, user: [magic, bytes, content, run, bad]
  plan,     \* the files the run has still to write
  pending,  \* whether the first of them is open for writing
  outcome,  \* "idle", "running", "true", "false" or "died"
  why,      \* the check that failed last
  runs      \* runs begun, at most MaxRuns

vars == <<lexiconVars, arrayVars, files, plan, pending, outcome, why, runs>>

Names == {"char", "unk", "sys", "matrix", "user"}
IsDic(f) == f \in {"unk", "sys", "user"}
NoFile == [magic |-> 0, bytes |-> 0, content |-> Missing, run |-> 0, bad |-> FALSE]
Contents(f) == files[f].content

(* Of a file nothing, a part or all of it has been written: 0, 1 or All.     *)
(* Dictionary::open compares the magic number with the size of the file and *)
(* refuses a short file, the tables say in their head how large they are.   *)
All == 2
Mapped(f) == files[f] # NoFile /\ files[f].bytes > 0
DictionaryOpensUnsized(f) == Mapped(f)  \* a fault: the size not compared
DictionaryOpens(f) == Mapped(f) /\ files[f].magic = files[f].bytes
CharPropertyOpens == Mapped("char") /\ files["char"].bytes = All
ConnectorOpens == Mapped("matrix") /\ files["matrix"].bytes = All
MaxRuns == IF source \in Again THEN 2 ELSE 1
-----------------------------------------------------------------------------
(* The command lines of dict_index_sys and dict_index_user, both directories *)
(* and the file given: an empty one would be left out and have its default. *)
Opt(name, short, takes) == [name |-> name, short |-> short, takes |-> takes]
CompilerOptions ==
  <<Opt("dicdir", "d", TRUE), Opt("outdir", "o", TRUE), Opt("userdic", "u", TRUE),
    Opt("build-unknown", "U", FALSE), Opt("build-charcategory", "C", FALSE),
    Opt("build-sysdic", "s", FALSE), Opt("build-matrix", "m", FALSE),
    Opt("charset", "c", TRUE), Opt("charset", "t", TRUE), Opt("dictionary-charset", "f", TRUE),
    Opt("wakati", "w", FALSE)>>
CompilerDefaults == [k \in {"dicdir", "outdir", "charset", "dictionary-charset"} |-> "default"]
Flag(dashes, name) == [dashes |-> dashes, name |-> name, given |-> FALSE, text |-> name]
Word(t) == [dashes |-> 0, text |-> t]
Args(kind) ==
  IF kind = "system"
  THEN <<Flag(1, "d"), Word("dic_dir"), Flag(1, "o"), Word("out_dir"), Flag(1, "f"), Word(RCharset),
         Flag(1, "t"), Word("utf8"), Flag(1, "s"), Flag(1, "U"), Flag(1, "C"), Flag(2, "build-matrix")>>
  ELSE <<Flag(1, "d"), Word("dic_dir"), Flag(1, "u"), Word("file"), Flag(1, "f"), Word(RCharset),
         Flag(1, "t"), Word("utf8"), Word("csv_file")>>
SystemArgs == OpenParam(CompilerOptions, CompilerDefaults, Args("system"))
UserArgs == OpenParam(CompilerOptions, CompilerDefaults, Args("user"))
BuildConf(kind) == Load(IF kind = "system" THEN SystemArgs.conf ELSE UserArgs.conf, source.dicrc)

(* The files of a run, in the order of DictionaryComplier::run.              *)
PlanOf(conf) ==
  IF "userdic" \in DOMAIN conf THEN <<"user">>
  ELSE (IF Get(conf, "build-charcategory", FALSE) \/ Get(conf, "build-unknown", FALSE) THEN <<"char">> ELSE <<>>)
         \o (IF Get(conf, "build-unknown", FALSE) THEN <<"unk">> ELSE <<>>)
         \o (IF Get(conf, "build-sysdic", FALSE) THEN <<"sys">> ELSE <<>>)
         \o (IF Get(conf, "build-matrix", FALSE) THEN <<"matrix">> ELSE <<>>)
-----------------------------------------------------------------------------
Init ==
  /\ source \in Sources /\ job = NoJob /\ ArrayInit
  /\ files = [f \in Names |-> NoFile]
  /\ plan = <<>> /\ pending = FALSE /\ outcome = "idle" /\ why = "" /\ runs = 0

(* CHECK_DIE throws out of run; the R function prints and returns FALSE.     *)
FailsAsDone(reason) ==  \* a fault: the result of the catch forgotten
  /\ outcome' = "true" /\ why' = reason /\ plan' = <<>> /\ job' = NoJob /\ pending' = FALSE
Fails(reason) ==
  /\ outcome' = "false" /\ why' = reason /\ plan' = <<>> /\ job' = NoJob /\ pending' = FALSE
Going == outcome = "running" /\ ~pending /\ plan # <<>>

Run(kind) ==
  /\ outcome # "running" /\ runs < MaxRuns
  /\ runs' = runs + 1
  /\ IF source.dicrc = Missing \/ ~Readable(source.dicrc)
     THEN Fails("no such file or directory")
     ELSE plan' = PlanOf(BuildConf(kind)) /\ outcome' = "running" /\ why' = "" /\ UNCHANGED <<job, pending>>
  /\ UNCHANGED <<source, arrayVars, files>>

(* The user edits the sources between two runs.                              *)
Edit ==
  /\ outcome # "running" /\ runs \in 1 .. MaxRuns - 1
  /\ \E s \in Again : s # source /\ source' = s
  /\ UNCHANGED <<job, arrayVars, files, plan, pending, outcome, why, runs>>

(* A writer opens its file, which truncates it unless it may not be opened, *)
(* and fills it; a dictionary begins with a magic number of 0 that is set   *)
(* when all else is written.                                               *)
Truncate(content) ==
  /\ pending' = TRUE
  /\ files' = [files EXCEPT ![Head(plan)] =
                 [magic |-> 0, bytes |-> 0, content |-> content, run |-> runs, bad |-> FALSE]]
Denied == source \in Again /\ Fails("permission denied") /\ UNCHANGED files
Writing == outcome = "running" /\ pending
Fill ==
  /\ Writing /\ files[Head(plan)].bytes < All /\ ~files[Head(plan)].bad
  /\ files' = [files EXCEPT ![Head(plan)].bytes = @ + 1]
  /\ UNCHANGED <<lexiconVars, arrayVars, plan, pending, outcome, why, runs>>

(* A write that fails, as on a full disk, makes the stream bad: it writes    *)
(* nothing from then on, nor says where it is for the magic number, which   *)
(* is the last thing to fail.  The code looks at the state of the stream    *)
(* when it is opened only.                                                 *)
Full == {f \in Names : files[f].bad}
WriteFails ==
  /\ Writing /\ source \in Again /\ ~files[Head(plan)].bad /\ Cardinality(Full) < MaxFull
  /\ files[Head(plan)].bytes < All \/ IsDic(Head(plan))
  /\ files' = [files EXCEPT ![Head(plan)].bad = TRUE]
  /\ UNCHANGED <<lexiconVars, arrayVars, plan, pending, outcome, why, runs>>
Close ==
  /\ Writing /\ (files[Head(plan)].bytes = All \/ files[Head(plan)].bad)
  /\ files' = IF IsDic(Head(plan)) /\ ~files[Head(plan)].bad
              THEN [files EXCEPT ![Head(plan)].magic = All] ELSE files
  /\ plan' = Tail(plan) /\ pending' = FALSE
  /\ UNCHANGED <<lexiconVars, arrayVars, outcome, why, runs>>

UnkDefDefault ==
  LET Line(name) == [kind |-> "entry", word |-> name, lid |-> 0, rid |-> 0, cost |-> 0,
                     feature |-> <<"*">>, converts |-> TRUE]
  IN  <<Line(Default), Line(SpaceName)>>
OrDefault(file, default) == IF file = Missing THEN default ELSE file
UnkDef == Unread(OrDefault(source.unk_def, UnkDefDefault))
CompileCharBin ==
  LET def == OrDefault(source.char_def, CharDefDefault)
      table == CompileChar(def, {UnkDef[i].word : i \in DOMAIN UnkDef})
  IN  /\ Going /\ Head(plan) = "char"
      /\ IF table = Dead THEN Fails("char.def") /\ UNCHANGED files
         ELSE (Truncate(table.value) /\ UNCHANGED <<plan, job, outcome, why>>) \/ Denied
      /\ UNCHANGED <<source, arrayVars, runs>>

(* The sizes a dictionary is compiled for: the head of matrix.def, or a     *)
(* matrix.bin that lies in dicdir already, or one by one.                   *)
MatrixBin(type) ==
  IF type # "user" /\ source.apart THEN source.matrix_bin
  ELSE IF ConnectorOpens THEN Contents("matrix") ELSE Missing
MatrixSizes(type) ==
  IF SourceFile(type, "matrix_def") # Missing THEN source.matrix_def
  ELSE IF MatrixBin(type) # Missing THEN MatrixBin(type) ELSE [lsize |-> 1, rsize |-> 1]
SizesUnreadable(type) ==
  SourceFile(type, "matrix_def") # Missing /\ ~HeadReadable(source.matrix_def)
BeginDictionary ==
  LET type == Head(plan)
      csv == CASE type = "unk" -> <<UnkDef>> [] type = "sys" -> source.csv
               [] OTHER -> <<source.user_csv>>
      conf == BuildConf(IF type = "user" THEN "user" ELSE "system")
      factor == Get(conf, "cost-factor", 0)
  IN  /\ Going /\ IsDic(Head(plan)) /\ job = NoJob
      /\ IF factor <= 0 \/ SizesUnreadable(type) \/ csv \in {<<>>, <<Missing>>}
         THEN Fails("cost factor, matrix.def or file")
         ELSE /\ job' = Job(type, LinesOf(csv), MatrixSizes(type), PosIdRules(SourceFile(type, "pos_id")),
                            Get(conf, "wakati", FALSE), factor)
              /\ UNCHANGED <<plan, pending, outcome, why>>
      /\ UNCHANGED <<source, arrayVars, files, runs>>

CharBin == IF CharPropertyOpens THEN Contents("char") ELSE Missing
ReadLines == Going /\ ReadLine(CharBin) /\ UNCHANGED <<files, plan, pending, outcome, why, runs>>

LineFails ==
  /\ Going /\ job # NoJob /\ job.failed # ""
  /\ Fails(job.failed)
  /\ UNCHANGED <<source, arrayVars, files, runs>>

(* Without any word the code reads the first word of an empty list: the     *)
(* process dies.                                                           *)
BuildArray ==
  /\ Going /\ job # NoJob /\ job.dic # <<>>
  /\ EndOfLines /\ UNCHANGED <<files, plan, pending, outcome, why, runs>>
NoWord ==
  /\ Going /\ job # NoJob /\ job.failed = "" /\ job.files = <<>> /\ job.dic = <<>>
  /\ outcome' = "died" /\ why' = "no word" /\ plan' = <<>> /\ job' = NoJob
  /\ UNCHANGED <<source, arrayVars, files, pending, runs>>

InArray ==
  /\ Going /\ job # NoJob /\ job.built
  /\ ArrayStep /\ UNCHANGED <<lexiconVars, files, plan, pending, outcome, why, runs>>

(* What the array is grown to then is undefined; the process is taken to die.*)
GrowFails ==
  /\ Going /\ job # NoJob /\ job.built /\ GrowsBeforeLeaf
  /\ outcome' = "died" /\ why' = "array" /\ plan' = <<>> /\ job' = NoJob
  /\ ArrayClear
  /\ UNCHANGED <<source, files, pending, runs>>

WriteDictionary ==
  /\ Going /\ job # NoJob /\ job.built /\ phase = "built"
  /\ (Truncate(Binary) /\ job' = NoJob /\ UNCHANGED <<plan, outcome, why>>) \/ Denied
  /\ ArrayClear
  /\ UNCHANGED <<source, runs>>

CompileMatrixBin ==
  LET m == CompileMatrix(OrDefault(source.matrix_def, MatrixDefDefault))
  IN  /\ Going /\ Head(plan) = "matrix"
      /\ IF m = Dead THEN Fails("matrix.def") /\ UNCHANGED files
         ELSE (Truncate(m.value) /\ UNCHANGED <<plan, job, outcome, why>>) \/ Denied
      /\ UNCHANGED <<source, arrayVars, runs>>

Finish ==
  /\ outcome = "running" /\ plan = <<>>
  /\ outcome' = "true"
  /\ UNCHANGED <<lexiconVars, arrayVars, files, plan, pending, why, runs>>

Crash ==
  /\ outcome = "running" /\ source \in Again
  /\ outcome' = "died" /\ why' = "killed" /\ plan' = <<>> /\ job' = NoJob /\ pending' = FALSE
  /\ ArrayClear
  /\ UNCHANGED <<source, files, runs>>

(* Between runs nothing need happen: a deadlock is a run that cannot go on.  *)
Rest == outcome # "running" /\ UNCHANGED vars

Next ==
  \/ Rest \/ Run("system") \/ Run("user") \/ Edit \/ CompileCharBin \/ BeginDictionary \/ ReadLines
  \/ LineFails \/ BuildArray \/ NoWord \/ InArray \/ GrowFails \/ WriteDictionary \/ CompileMatrixBin
  \/ Fill \/ WriteFails \/ Close \/ Finish \/ Crash

Spec == Init /\ [][Next]_vars
-----------------------------------------------------------------------------
(* Opening a model: the files are read whole, by any process at any time.   *)
(* The options come from the dicrc, which must name a feature for the ends  *)
(* of a sentence.                                                          *)
Category(unk, name) ==
  LET v == ExactMatchSearch(unk.cells, name) IN IF v = -1 THEN <<>> ELSE TokensAt(unk, v)
TokenizerOpensAnyway(with_user) ==  \* a fault: classes without entries
  /\ DictionaryOpens("unk") /\ CharPropertyOpens /\ DictionaryOpens("sys")
  /\ with_user => /\ DictionaryOpens("user")
                  /\ Contents("user").lsize = Contents("sys").lsize
                  /\ Contents("user").rsize = Contents("sys").rsize
  /\ "bos-feature" \in DOMAIN Load(CompilerDefaults, source.dicrc)
TokenizerOpens(with_user) ==
  /\ DictionaryOpens("unk") /\ CharPropertyOpens /\ DictionaryOpens("sys")
  /\ with_user => /\ DictionaryOpens("user")
                  /\ Contents("user").lsize = Contents("sys").lsize
                  /\ Contents("user").rsize = Contents("sys").rsize
  /\ \A i \in DOMAIN Contents("char").names :
       ExactMatchSearch(Contents("unk").cells, Contents("char").names[i]) # -1
  /\ "bos-feature" \in DOMAIN Load(CompilerDefaults, source.dicrc)
ViterbiOpensUnmatched(with_user) ==  \* a fault: matrix and dictionary not compared
  TokenizerOpens(with_user) /\ ConnectorOpens
ViterbiOpens(with_user) ==
  /\ TokenizerOpens(with_user) /\ ConnectorOpens
  /\ Contents("sys").lsize = Contents("matrix").lsize
  /\ Contents("sys").rsize = Contents("matrix").rsize
ModelOpens(with_user) == source.dicrc # Missing /\ Readable(source.dicrc) /\ ViterbiOpens(with_user)
-----------------------------------------------------------------------------
AtEnd == outcome \in {"true", "false", "died"}
SystemTokens == Range(Contents("sys").tokens)
UserTokens == IF ModelOpens(TRUE) THEN Range(Contents("user").tokens) ELSE {}
InMatrix(tokens) ==
  \A x, y \in tokens : CostCell(Contents("matrix"), x.rc, y.lc) \in DOMAIN Contents("matrix").cells

TypeOK ==
  /\ outcome \in {"idle", "running", "true", "false", "died"} /\ runs \in 0 .. 2
  /\ Range(plan) \subseteq Names /\ pending \in BOOLEAN
  /\ \A f \in Names : files[f] # NoFile =>
       files[f].bytes \in 0 .. All /\ files[f].run \in 1 .. runs /\ files[f].bad \in BOOLEAN
  /\ array \in [0 .. alloc - 1 -> Cell] /\ phase \in {"idle", "insert", "built", "failed"}
  /\ job # NoJob => /\ \A i \in DOMAIN job.dic : IsValid(job, job.dic[i].token.lc, job.dic[i].token.rc)
                    /\ job.built = (phase # "idle")

(* The built dictionary finds, for every text, exactly the words of the     *)
(* lines that the text starts with, each with the tokens and features of    *)
(* its lines in the order of the lines: the placement of the array, the     *)
(* packing of the values and the offsets of the features agree             *)
(* (dictionary.cpp:421-469, darts.h:138-214).  A word has less than         *)
(* PackWidth lines.  No walk reads behind the array, whatever byte comes:  *)
(* size() leaves room behind the last base (darts.h:299).                  *)
TokensOfWord(dic, w) ==
  LET Earlier(i, k) == i < k
      lines == InOrder({i \in DOMAIN dic : dic[i].word = w}, Earlier)
      Of(e) == [lc |-> e.token.lc, rc |-> e.token.rc, posid |-> e.token.posid, wcost |-> e.token.wcost,
                feature |-> IF job.wakati THEN <<>> ELSE e.feature]
  IN  [i \in DOMAIN lines |-> Of(dic[lines[i]])]
Homographs(dic) ==
  \E w \in {dic[i].word : i \in DOMAIN dic} : Len(TokensOfWord(dic, w)) >= PackWidth
Texts == UNION {[1 .. n -> {1, MaxByte}] : n \in 0 .. 4}
WalksInside ==
  \A p \in 0 .. size - 1 : array[p].base > 0 => array[p].base + MaxByte + 1 < size
LookupFinds ==
  (job # NoJob /\ job.built /\ phase = "built" /\ ~Homographs(job.dic)) =>
    LET bin == Binary
        words == {job.dic[i].word : i \in DOMAIN job.dic}
    IN  /\ WalksInside
        /\ \A text \in Texts :
          Found(bin, text) = {[word |-> w, tokens |-> TokensOfWord(job.dic, w)] :
                                w \in {v \in words : IsPrefix(v, text)}}

(* A cell that belongs to a node is never given to another one, however     *)
(* often the array grows (darts.h:149-189).                                 *)
CellsKept ==
  [][\A p \in DOMAIN array :
       array[p].check # 0 /\ phase = "insert" /\ phase' # "idle" =>
         p \in DOMAIN array' /\ array'[p].check = array[p].check]_vars

(* A model that opens read files that were written to their end, also when  *)
(* the compiler died in the middle of one, is writing it right now or could *)
(* not write all of it and went on                                         *)
(* (dictionary.cpp:82-122, char_property.cpp:90, connector.cpp:35).         *)
OpenedFilesComplete ==
  ModelOpens(FALSE) => \A f \in Names \ {"user"} : files[f].bytes = All

(* In a model that opens, every pair of words of the system dictionary and  *)
(* the user dictionary has a cell in the matrix, also when the files come   *)
(* from different runs over different sources (viterbi.cpp:56,             *)
(* tokenizer.cpp:120, dictionary.cpp:354).                                 *)
WordIdsInMatrix == ModelOpens(FALSE) => InMatrix(SystemTokens \cup UserTokens)

(* What the tokenizer assumes of its tables holds for a model that opens:   *)
(* each class has its own bit in its type and entries in unk.dic            *)
(* (tokenizer.cpp:142-149).                                                *)
Bits(n) == {i \in 0 .. 17 : (n \div 2 ^ i) % 2 = 1}
TablesUsable ==
  ModelOpens(FALSE) =>
    LET c == Contents("char")
    IN  \A ch \in DOMAIN c.map :
          /\ c.map[ch].default_type + 1 \in DOMAIN c.names
          /\ c.map[ch].default_type \in Bits(c.map[ch].type)
          /\ Category(Contents("unk"), c.names[c.map[ch].default_type + 1]) # <<>>

(* TRUE means that this run opened and closed every file it had to, and     *)
(* that one is short only if a write to it failed; FALSE leaves the files   *)
(* in front of the failure new and those behind it old                     *)
(* (dictionary_compiler.cpp:102-150).  TRUE with a short file is what the   *)
(* code does, although it is to say that the dictionary "is successfully   *)
(* built" (R/build_dict.R:17, 66): no writer looks at its stream again     *)
(* (dictionary.cpp:488-515, char_property.cpp:254-265, connector.cpp:101). *)
Order == <<"char", "unk", "sys", "matrix">>
OfRun(f) == files[f] # NoFile /\ files[f].run = runs
Whole(f) == files[f].bytes = All /\ (IsDic(f) => files[f].magic = All)
Written(f) == OfRun(f) /\ (Whole(f) \/ files[f].bad)
ResultOfRun ==
  /\ outcome = "true" => \E fs \in {Names \ {"user"}, {"user"}} : \A f \in fs : Written(f)
  /\ outcome = "false" =>
       \A i \in 1 .. 4 : OfRun(Order[i]) => \A k \in 1 .. i : Written(Order[k])
=============================================================================
