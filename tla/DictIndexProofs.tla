--------------------------- MODULE DictIndexProofs ---------------------------
(***************************************************************************)
(* Whatever the sources, and wherever a run fails or dies: a model that    *)
(* opens has read files that were written to their end, and what a run     *)
(* says of itself is true of the files it leaves; the ids of the words it  *)
(* finds have a cell in its matrix; and while the array is built, no word  *)
(* takes a cell that another has taken.                                    *)
(***************************************************************************)
EXTENDS DictIndex, FiniteSetTheorems, FunctionTheorems, NaturalsInduction,
        WellFoundedInduction, TLAPS

(* A file somebody has begun to write.  Its magic number comes last. *)
IsFile(x) ==
  /\ x = [magic |-> x.magic, bytes |-> x.bytes, content |-> x.content, run |-> x.run,
         bad |-> x.bad]
  /\ x.bytes \in 0 .. All /\ x.magic \in {0, All} /\ x.bad \in BOOLEAN
  /\ x.magic = All => x.bytes = All

FilesOK ==
  /\ files = [f \in Names |-> files[f]]
  /\ \A f \in Names : IsFile(files[f])
  /\ pending => /\ outcome = "running" /\ plan # <<>>
                /\ Head(plan) \in Names => IsFile(files[Head(plan)])

(* Opening a file for writing. *)
LEMMA Truncated ==
  ASSUME FilesOK, NEW content, Going, Truncate(content), UNCHANGED <<plan, outcome>>
  PROVE  FilesOK'
  <1> DEFINE new == [magic |-> 0, bytes |-> 0, content |-> content, run |-> runs, bad |-> FALSE]
  <1>1. IsFile(new)
    BY DEF IsFile, All
  <1>2. files' = [files EXCEPT ![Head(plan)] = new] /\ plan' = plan
        /\ outcome' = "running" /\ plan # <<>>
    BY DEF Truncate, Going
  <1> HIDE DEF new
  <1>3. \A f \in Names : files'[f] = IF f = Head(plan) THEN new ELSE files[f]
    BY <1>2 DEF FilesOK
  <1>4. files' = [f \in Names |-> files'[f]]
    BY <1>2 DEF FilesOK
  <1> QED
    BY <1>1, <1>2, <1>3, <1>4 DEF FilesOK

(* A writer goes on. *)
LEMMA Filled ==
  ASSUME FilesOK, Fill PROVE FilesOK'
  <1> DEFINE h == Head(plan)
             new == [files[h] EXCEPT !.bytes = @ + 1]
  <1>1. pending /\ files[h].bytes < All /\ files' = [files EXCEPT ![h] = new]
        /\ UNCHANGED <<plan, pending, outcome>>
    BY DEF Fill, Writing
  <1>2. CASE h \in Names
    <2>1. IsFile(files[h])
      BY <1>1, <1>2 DEF FilesOK
    <2>2. new = [magic |-> files[h].magic, bytes |-> files[h].bytes + 1,
                 content |-> files[h].content, run |-> files[h].run, bad |-> files[h].bad]
      BY <2>1 DEF IsFile
    <2>3. IsFile(new)
      BY <1>1, <2>1, <2>2 DEF IsFile, All
    <2> HIDE DEF new
    <2>4. \A f \in Names : files'[f] = IF f = h THEN new ELSE files[f]
      BY <1>1 DEF FilesOK
    <2>5. files' = [f \in Names |-> files'[f]]
      BY <1>1 DEF FilesOK
    <2> QED
      BY <1>1, <1>2, <2>3, <2>4, <2>5 DEF FilesOK
  <1>3. CASE h \notin Names
    <2> HIDE DEF new
    <2>1. files' = files
      BY <1>1, <1>3 DEF FilesOK
    <2> QED
      BY <1>1, <2>1 DEF FilesOK
  <1> QED
    BY <1>2, <1>3

(* A writer has written all it has and, last of all, the magic number. *)
LEMMA Closed ==
  ASSUME FilesOK, Close PROVE FilesOK'
  <1> DEFINE h == Head(plan)
             new == [files[h] EXCEPT !.magic = All]
  <1>1. /\ pending /\ pending' = FALSE
        /\ (files[h].bytes = All /\ files' = [files EXCEPT ![h] = new]) \/ files' = files
    BY DEF Close, Writing
  <1>2. CASE files' = files
    BY <1>1, <1>2 DEF FilesOK
  <1>3. CASE files[h].bytes = All /\ files' = [files EXCEPT ![h] = new] /\ h \in Names
    <2>1. IsFile(files[h])
      BY <1>1, <1>3 DEF FilesOK
    <2>2. new = [magic |-> All, bytes |-> All, content |-> files[h].content, run |-> files[h].run,
                 bad |-> files[h].bad]
      BY <1>3, <2>1 DEF IsFile
    <2>3. IsFile(new)
      BY <2>1, <2>2 DEF IsFile, All
    <2> HIDE DEF new
    <2>4. \A f \in Names : files'[f] = IF f = h THEN new ELSE files[f]
      BY <1>3 DEF FilesOK
    <2>5. files' = [f \in Names |-> files'[f]]
      BY <1>3 DEF FilesOK
    <2> QED
      BY <1>1, <2>3, <2>4, <2>5 DEF FilesOK
  <1>4. CASE files' = [files EXCEPT ![h] = new] /\ h \notin Names
    <2> HIDE DEF new
    <2> QED
      BY <1>1, <1>4 DEF FilesOK
  <1> QED
    BY <1>1, <1>2, <1>3, <1>4

(* A file whose stream goes bad, field by field. *)
LEMMA Spoilt ==
  ASSUME NEW x, IsFile(x), NEW v
  PROVE  [x EXCEPT !.bad = v] =
           [magic |-> x.magic, bytes |-> x.bytes, content |-> x.content, run |-> x.run, bad |-> v]
  BY DEF IsFile

(* A write fails: the file is as short as it was. *)
LEMMA Broken ==
  ASSUME FilesOK, WriteFails PROVE FilesOK'
  <1> DEFINE h == Head(plan)
             new == [files[h] EXCEPT !.bad = TRUE]
  <1>1. pending /\ files' = [files EXCEPT ![h] = new] /\ UNCHANGED <<plan, pending, outcome>>
    BY DEF WriteFails, Writing
  <1>2. CASE h \in Names
    <2>1. IsFile(files[h])
      BY <1>1, <1>2 DEF FilesOK
    <2>2. new = [magic |-> files[h].magic, bytes |-> files[h].bytes,
                 content |-> files[h].content, run |-> files[h].run, bad |-> TRUE]
      BY <2>1, Spoilt, Zenon
    <2>3. IsFile(new)
      BY <2>1, <2>2 DEF IsFile, All
    <2> HIDE DEF new
    <2>4. \A f \in Names : files'[f] = IF f = h THEN new ELSE files[f]
      BY <1>1 DEF FilesOK
    <2>5. files' = [f \in Names |-> files'[f]]
      BY <1>1 DEF FilesOK
    <2> QED
      BY <1>1, <1>2, <2>3, <2>4, <2>5 DEF FilesOK
  <1>3. CASE h \notin Names
    <2> HIDE DEF new
    <2>1. files' = files
      BY <1>1, <1>3 DEF FilesOK
    <2> QED
      BY <1>1, <2>1 DEF FilesOK
  <1> QED
    BY <1>2, <1>3

(* A step that writes nothing and leaves no file open it has not opened. *)
LEMMA FilesKept ==
  ASSUME FilesOK, UNCHANGED files, UNCHANGED <<plan, pending, outcome>> \/ ~pending'
  PROVE  FilesOK'
  BY DEF FilesOK

(* Every step keeps the files in order. *)
LEMMA FilesStep ==
  ASSUME FilesOK, [Next]_vars PROVE FilesOK'
  <1>1. CASE Rest \/ Edit \/ ReadLines \/ BuildArray \/ InArray \/ UNCHANGED vars
    BY <1>1, FilesKept DEF Rest, Edit, ReadLines, BuildArray, InArray, vars
  <1>2. CASE LineFails \/ NoWord \/ GrowFails \/ Finish \/ Crash
    <2>1. CASE LineFails
      BY <1>2, <2>1, FilesKept, Zenon DEF LineFails, Fails
    <2>2. CASE NoWord
      BY <2>2, FilesKept, Zenon DEF NoWord, Going
    <2>5. CASE GrowFails
      BY <2>5, FilesKept DEF GrowFails, Going
    <2>3. CASE Finish
      BY <2>3, FilesKept DEF Finish, FilesOK
    <2>4. CASE Crash
      BY <2>4, FilesKept DEF Crash
    <2> QED
      BY <1>2, <2>1, <2>2, <2>3, <2>4, <2>5
  <1>3. ASSUME NEW kind, Run(kind) PROVE FilesOK'
    <2>1. ~pending
      BY <1>3, Zenon DEF Run, FilesOK
    <2>2. UNCHANGED files /\ (pending' = FALSE \/ UNCHANGED pending)
      BY <1>3, Zenon DEF Run, Fails
    <2> QED
      BY <2>1, <2>2, FilesKept
  <1>4. CASE CompileCharBin
    <2> DEFINE def == OrDefault(source.char_def, CharDefDefault)
               table == CompileChar(def, {UnkDef[i].word : i \in DOMAIN UnkDef})
    <2>1. /\ Going
          /\ IF table = Dead THEN Fails("char.def") /\ UNCHANGED files
             ELSE (Truncate(table.value) /\ UNCHANGED <<plan, job, outcome, why>>) \/ Denied
      BY <1>4 DEF CompileCharBin
    <2> HIDE DEF table
    <2> QED
      BY <2>1, FilesKept, Truncated DEF Fails, Denied
  <1>5. CASE BeginDictionary
    <2>1. UNCHANGED files /\ (UNCHANGED <<plan, pending, outcome>> \/ ~pending')
      BY <1>5, Zenon DEF BeginDictionary, Fails
    <2> QED
      BY <2>1, FilesKept
  <1>6. CASE WriteDictionary
    <2>1. /\ Going
          /\ (Truncate(Binary) /\ UNCHANGED <<plan, outcome>>) \/ (UNCHANGED files /\ pending' = FALSE)
      BY <1>6, Zenon DEF WriteDictionary, Denied, Fails
    <2> QED
      BY <2>1, FilesKept, Truncated
  <1>7. CASE CompileMatrixBin
    <2> DEFINE m == CompileMatrix(OrDefault(source.matrix_def, MatrixDefDefault))
    <2>1. /\ Going
          /\ IF m = Dead THEN Fails("matrix.def") /\ UNCHANGED files
             ELSE (Truncate(m.value) /\ UNCHANGED <<plan, job, outcome, why>>) \/ Denied
      BY <1>7, Zenon DEF CompileMatrixBin
    <2> HIDE DEF m
    <2> QED
      BY <2>1, FilesKept, Truncated, Zenon DEF Fails, Denied
  <1>8. CASE Fill
    BY <1>8, Filled
  <1>9. CASE Close
    BY <1>9, Closed
  <1>10. CASE WriteFails
    BY <1>10, Broken
  <1> QED
    BY <1>1, <1>2, <1>3, <1>4, <1>5, <1>6, <1>7, <1>8, <1>9, <1>10 DEF Next

(* What opens was written to its end. *)
LEMMA FilesComplete ==
  ASSUME FilesOK PROVE OpenedFilesComplete
  <1> SUFFICES ASSUME ModelOpens(FALSE), NEW f \in Names \ {"user"} PROVE files[f].bytes = All
    BY DEF OpenedFilesComplete
  <1>1. DictionaryOpens("unk") /\ DictionaryOpens("sys") /\ CharPropertyOpens /\ ConnectorOpens
    BY DEF ModelOpens, ViterbiOpens, TokenizerOpens
  <1>2. \A d \in {"unk", "sys"} : files[d].bytes = All
    <2>1. \A d \in {"unk", "sys"} : IsFile(files[d]) /\ files[d].bytes > 0 /\ files[d].magic = files[d].bytes
      BY <1>1 DEF FilesOK, DictionaryOpens, Mapped, Names
    <2> QED
      BY <2>1 DEF IsFile, All
  <1> QED
    BY <1>1, <1>2 DEF CharPropertyOpens, ConnectorOpens, Names

(* A model that opens has read files that were written to their end, also   *)
(* while a compiler is at work and after any number that died anywhere     *)
(* (dictionary.cpp:82-122, 486-513).                                       *)
THEOREM OpenedComplete == Spec => []OpenedFilesComplete
  <1>1. Init => FilesOK
    <2>1. IsFile(NoFile)
      BY DEF IsFile, NoFile, All
    <2> QED
      BY <2>1, Zenon DEF Init, FilesOK
  <1>2. FilesOK /\ [Next]_vars => FilesOK'
    BY FilesStep
  <1>3. FilesOK => OpenedFilesComplete
    BY FilesComplete
  <1> QED
    BY <1>1, <1>2, <1>3, PTL DEF Spec
-----------------------------------------------------------------------------
(* The command lines of the two R functions, read option by option.          *)

(* Of the numbers that have a property, one is the smallest. *)
LEMMA Smallest ==
  ASSUME NEW S, S \subseteq Nat, S # {}
  PROVE  \E j \in S : \A k \in S : j <= k
  <1> DEFINE Less == {x \in Nat \X Nat : x[1] < x[2]}
  <1>1. IsWellFoundedOn(Less, Nat)
    BY NatLessThanWellFounded DEF OpToRel
  <1>2. PICK j \in S : \A k \in S : <<k, j>> \notin Less
    BY <1>1, WFMin, Zenon
  <1>3. \A k \in S : ~(k < j)
    BY <1>2, Zenon
  <1> QED
    BY <1>3

FirstState(defaults) ==
  [conf |-> defaults, rest |-> <<>>, awaits |-> NullText, refused |-> FALSE, ended |-> FALSE]

(* The states of a scan over the first n arguments. *)
IsScan(st, options, defaults, args, n) ==
  /\ DOMAIN st = 0 .. n
  /\ st[0] = FirstState(defaults)
  /\ \A i \in 1 .. n : st[i] = Parse(options, st[i - 1], args[i])

(* For any arguments there is a scan. *)
LEMMA ScansExist ==
  ASSUME NEW options, NEW defaults, NEW args, NEW n \in Nat
  PROVE  \E st : IsScan(st, options, defaults, args, n)
  <1> DEFINE Ns == {k \in Nat : ~\E st : IsScan(st, options, defaults, args, k)}
  <1> SUFFICES ASSUME Ns # {} PROVE FALSE
    OBVIOUS
  <1>1. PICK k \in Ns : \A j \in Ns : k <= j
    <2>1. Ns \subseteq Nat
      OBVIOUS
    <2> HIDE DEF Ns
    <2> QED
      BY <2>1, Smallest, Zenon
  <1>2. k # 0
    <2>1. IsScan([i \in 0 .. 0 |-> FirstState(defaults)], options, defaults, args, 0)
      BY DEF IsScan
    <2> QED
      BY <1>1, <2>1
  <1>3. k - 1 \in Nat /\ k \in Nat /\ k - 1 \notin Ns
    BY <1>1, <1>2
  <1>4. PICK s : IsScan(s, options, defaults, args, k - 1)
    BY <1>3
  <1>5. PICK new : new = Parse(options, s[k - 1], args[k])
    OBVIOUS
  <1>6. PICK t : t = [i \in 0 .. k |-> IF i = k THEN new ELSE s[i]]
    BY Zenon
  <1>7. IsScan(t, options, defaults, args, k)
    <2>1. DOMAIN t = 0 .. k /\ t[0] = FirstState(defaults)
      BY <1>2, <1>3, <1>4, <1>6 DEF IsScan
    <2>2. ASSUME NEW i \in 1 .. k PROVE t[i] = Parse(options, t[i - 1], args[i])
      <3>1. t[i - 1] = s[i - 1]
        BY <1>3, <1>6
      <3>2. i # k => t[i] = s[i] /\ i \in 1 .. k - 1
        BY <1>3, <1>6
      <3>3. i = k => t[i] = new
        BY <1>3, <1>6
      <3> QED
        BY <1>4, <1>5, <3>1, <3>2, <3>3, Zenon DEF IsScan
    <2> QED
      BY <2>1, <2>2 DEF IsScan
  <1> QED
    BY <1>1, <1>7

(* OpenParam gives what is left at the end of the scan. *)
LEMMA OpensFromScan ==
  ASSUME NEW options, NEW defaults, NEW args, Len(args) \in Nat
  PROVE  \E st : /\ IsScan(st, options, defaults, args, Len(args))
                 /\ OpenParam(options, defaults, args) =
                      IF st[Len(args)].refused \/ st[Len(args)].awaits # NullText THEN Refused
                      ELSE Conf(st[Len(args)].conf, st[Len(args)].rest)
  <1> DEFINE Body(t) == [i \in 0 .. Len(args) |->
                           IF i = 0 THEN FirstState(defaults)
                           ELSE Parse(options, t[i - 1], args[i])]
             st == CHOOSE t : t = Body(t)
  <1>1. PICK s : IsScan(s, options, defaults, args, Len(args))
    BY ScansExist
  <1>2. PICK u : u = [i \in 0 .. Len(args) |-> s[i]]
    BY Zenon
  <1>3. u = Body(u)
    <2>1. ASSUME NEW i \in 0 .. Len(args), i # 0 PROVE u[i] = Parse(options, u[i - 1], args[i])
      <3>1. i \in 1 .. Len(args) /\ i - 1 \in 0 .. Len(args)
        BY <2>1
      <3>2. u[i] = s[i] /\ u[i - 1] = s[i - 1]
        BY <1>2, <3>1
      <3> QED
        BY <1>1, <3>1, <3>2 DEF IsScan
    <2>2. u[0] = FirstState(defaults)
      BY <1>1, <1>2 DEF IsScan
    <2>3. \A i \in 0 .. Len(args) : u[i] = Body(u)[i]
      BY <2>1, <2>2
    <2>4. DOMAIN u = 0 .. Len(args) /\ u = [i \in 0 .. Len(args) |-> u[i]]
      BY <1>2
    <2> HIDE DEF Body
    <2>5. Body(u) = [i \in 0 .. Len(args) |-> Body(u)[i]]
      BY DEF Body
    <2> QED
      BY <2>3, <2>4, <2>5
  <1>4. st = Body(st)
    <2> HIDE DEF Body
    <2>1. \E t : t = Body(t)
      BY <1>3
    <2> QED
      BY <2>1, Zenon
  <1>5. OpenParam(options, defaults, args) =
          IF st[Len(args)].refused \/ st[Len(args)].awaits # NullText THEN Refused
          ELSE Conf(st[Len(args)].conf, st[Len(args)].rest)
    BY DEF OpenParam, FirstState
  <1> HIDE DEF st
  <1>6. IsScan(st, options, defaults, args, Len(args))
    <2>1. DOMAIN st = 0 .. Len(args) /\ \A i \in 0 .. Len(args) : st[i] = Body(st)[i]
      <3>1. DOMAIN Body(st) = 0 .. Len(args)
        OBVIOUS
      <3> HIDE DEF Body
      <3> QED
        BY <1>4, <3>1, Zenon
    <2>2. st[0] = FirstState(defaults)
      BY <2>1
    <2>3. ASSUME NEW i \in 1 .. Len(args) PROVE st[i] = Parse(options, st[i - 1], args[i])
      <3>1. i \in 0 .. Len(args) /\ i # 0
        OBVIOUS
      <3>2. st[i] = Body(st)[i]
        BY <2>1, <3>1
      <3> QED
        BY <3>1, <3>2, Zenon
    <2> QED
      BY <2>1, <2>2, <2>3 DEF IsScan
  <1> QED
    BY <1>5, <1>6

(* A scan that is not refused so far and waits for the value of awaits. *)
At(c, r, awaits) == [conf |-> c, rest |-> r, awaits |-> awaits, refused |-> FALSE, ended |-> FALSE]

(* A word is the value that is waited for, or is left over. *)
LEMMA ParseWord ==
  ASSUME NEW options, NEW c, NEW r, NEW name, NEW t
  PROVE  /\ name # NullText => Parse(options, At(c, r, name), Word(t)) = At(Set(c, name, t), r, NullText)
         /\ Parse(options, At(c, r, NullText), Word(t)) = At(c, Append(r, t), NullText)
  <1> DEFINE s == At(c, r, name)
  <1>1. ASSUME name # NullText PROVE Parse(options, s, Word(t)) = At(Set(c, name, t), r, NullText)
    <2>1. Word(t).text = t
      BY DEF Word
    <2>2. ~s.refused /\ ~s.ended /\ s.awaits = name
      BY DEF At
    <2>3. Parse(options, s, Word(t)) = [s EXCEPT !.conf = Set(@, s.awaits, Word(t).text), !.awaits = NullText]
      BY <1>1, <2>2 DEF Parse
    <2> QED
      BY <2>1, <2>2, <2>3, Zenon DEF At
  <1> DEFINE s0 == At(c, r, NullText)
  <1>2. Parse(options, s0, Word(t)) = At(c, Append(r, t), NullText)
    <2>1. Word(t).text = t /\ Word(t).dashes = 0
      BY DEF Word
    <2>2. ~s0.refused /\ ~s0.ended /\ s0.awaits = NullText
      BY DEF At
    <2>3. Parse(options, s0, Word(t)) = [s0 EXCEPT !.rest = Append(@, Word(t).text)]
      BY <2>1, <2>2 DEF Parse
    <2> QED
      BY <2>1, <2>3, Zenon DEF At
  <1> QED
    BY <1>1, <1>2

SetOn(c, name) == Set(c, name, TRUE)

(* The only option of the compiler that an argument names. *)
Names1(k, dashes, name) ==
  LET Hit(i) == IF dashes = 2 THEN CompilerOptions[i].name = name ELSE CompilerOptions[i].short = name
  IN  /\ dashes \in {1, 2} /\ name # NullText /\ k \in Nat /\ k \in DOMAIN CompilerOptions
      /\ \A i \in DOMAIN CompilerOptions : Hit(i) <=> i = k

(* A flag sets its option, or waits for the value of it. *)
LEMMA ParseFlag ==
  ASSUME NEW c, NEW r, NEW dashes, NEW name, NEW k, Names1(k, dashes, name)
  PROVE  Parse(CompilerOptions, At(c, r, NullText), Flag(dashes, name)) =
           IF CompilerOptions[k].takes THEN At(c, r, CompilerOptions[k].name)
           ELSE At(SetOn(c, CompilerOptions[k].name), r, NullText)
  <1> DEFINE o == CompilerOptions[k]
             s == At(c, r, NullText)
             a == Flag(dashes, name)
             hits == {i \in DOMAIN CompilerOptions :
                        IF a.dashes = 2 THEN CompilerOptions[i].name = a.name
                        ELSE CompilerOptions[i].short = a.name}
             first == CHOOSE i \in hits : \A j \in hits : i <= j
  <1>1. a.dashes = dashes /\ a.name = name /\ a.given = FALSE /\ dashes # 0
    <2>1. dashes # 0
      BY DEF Names1
    <2> QED
      BY <2>1 DEF Flag
  <1>2. ~s.refused /\ ~s.ended /\ s.awaits = NullText
    BY DEF At
  <1>0. dashes \in {1, 2} /\ name # NullText /\ k \in Nat
    BY DEF Names1
  <1>3. hits = {k}
    BY <1>1 DEF Names1
  <1>4. first = k /\ hits # {}
    <2> HIDE DEF hits
    <2>1. \E i \in hits : \A j \in hits : i <= j
      BY <1>0, <1>3
    <2>2. first \in hits
      BY <2>1
    <2> QED
      BY <1>3, <2>2
  <1>5. Parse(CompilerOptions, s, a) =
          IF ~CompilerOptions[first].takes
          THEN [s EXCEPT !.refused = a.given, !.conf = Set(@, CompilerOptions[first].name, TRUE)]
          ELSE [s EXCEPT !.awaits = CompilerOptions[first].name]
    <2>1. hits # {}
      BY <1>4
    <2>2. ~(s.refused \/ s.ended) /\ ~(s.awaits # NullText) /\ ~(a.dashes = 0) /\ ~(a.name = NullText) /\ ~a.given
      BY <1>0, <1>1, <1>2
    <2> DEFINE o1 == CompilerOptions[first]
               x == [s EXCEPT !.conf = Set(@, s.awaits, a.text), !.awaits = NullText]
               y == [s EXCEPT !.rest = Append(@, a.text)]
               z == [s EXCEPT !.ended = a.dashes = 2]
               u == [s EXCEPT !.refused = TRUE]
               v == [s EXCEPT !.refused = a.given, !.conf = Set(@, o1.name, TRUE)]
               w == [s EXCEPT !.conf = Set(@, o1.name, a.value)]
               t == [s EXCEPT !.awaits = o1.name]
    <2>3. Parse(CompilerOptions, s, a) =
            IF s.refused \/ s.ended THEN s
            ELSE IF s.awaits # NullText THEN x
            ELSE IF a.dashes = 0 THEN y
            ELSE IF a.name = NullText THEN z
            ELSE IF hits = {} THEN u
            ELSE IF ~o1.takes THEN v
            ELSE IF a.given THEN w
            ELSE t
      BY DEF Parse
    <2>4. Parse(CompilerOptions, s, a) = IF ~o1.takes THEN v ELSE t
      <3> HIDE DEF x, y, z, u, v, w, t, o1, hits, s, a
      <3> QED
        BY <2>1, <2>2, <2>3
    <2> QED
      BY <2>4, Zenon
  <1> HIDE DEF first, hits, a
  <1>6. ASSUME o.takes PROVE Parse(CompilerOptions, s, a) = At(c, r, o.name)
    <2>1. Parse(CompilerOptions, s, a) = [s EXCEPT !.awaits = o.name]
      BY <1>4, <1>5, <1>6, Zenon
    <2> QED
      BY <2>1, Zenon DEF At
  <1>7. ASSUME ~o.takes PROVE Parse(CompilerOptions, s, a) = At(SetOn(c, o.name), r, NullText)
    <2>1. Parse(CompilerOptions, s, a) = [s EXCEPT !.refused = FALSE, !.conf = Set(@, o.name, TRUE)]
      BY <1>1, <1>4, <1>5, <1>7, Zenon
    <2>2. Parse(CompilerOptions, s, a) = [s EXCEPT !.refused = FALSE, !.conf = SetOn(c, o.name)]
      BY <2>1 DEF SetOn, At
    <2> QED
      BY <2>2, Zenon DEF At
  <1> QED
    BY <1>6, <1>7 DEF a

(* No argument of the two calls is empty. *)
LEMMA NotNull ==
  /\ "d" # NullText /\ "o" # NullText /\ "u" # NullText /\ "U" # NullText /\ "C" # NullText /\ "s" # NullText
  /\ "t" # NullText /\ "f" # NullText /\ "build-matrix" # NullText
  /\ "dicdir" # NullText /\ "outdir" # NullText /\ "userdic" # NullText /\ "charset" # NullText
  /\ "dictionary-charset" # NullText
  BY Zenon DEF NullText

(* Which option an argument names. *)
LEMMA OptionsNamed ==
  /\ Names1(1, 1, "d") /\ Names1(2, 1, "o") /\ Names1(3, 1, "u") /\ Names1(4, 1, "U")
  /\ Names1(5, 1, "C") /\ Names1(6, 1, "s") /\ Names1(7, 2, "build-matrix")
  /\ Names1(9, 1, "t") /\ Names1(10, 1, "f")
  <1> DEFINE O == CompilerOptions
  <1>1. /\ DOMAIN O = 1 .. 11
        /\ O[1].short = "d" /\ O[2].short = "o" /\ O[3].short = "u" /\ O[4].short = "U"
        /\ O[5].short = "C" /\ O[6].short = "s" /\ O[7].short = "m" /\ O[8].short = "c"
        /\ O[9].short = "t" /\ O[10].short = "f" /\ O[11].short = "w"
    BY DEF CompilerOptions, Opt
  <1>2. /\ O[1].name = "dicdir" /\ O[2].name = "outdir" /\ O[3].name = "userdic"
        /\ O[4].name = "build-unknown" /\ O[5].name = "build-charcategory"
        /\ O[6].name = "build-sysdic" /\ O[7].name = "build-matrix" /\ O[8].name = "charset"
        /\ O[9].name = "charset" /\ O[10].name = "dictionary-charset" /\ O[11].name = "wakati"
    BY DEF CompilerOptions, Opt
  <1>3. \A i \in DOMAIN O : i \in {1, 2, 3, 4, 5, 6, 7, 8, 9, 10, 11}
    BY <1>1
  <1> HIDE DEF O
  <1>4. ASSUME NEW k \in 1 .. 11, NEW i \in DOMAIN O, O[i].short = O[k].short PROVE i = k
    BY <1>1, <1>3, <1>4
  <1>5. ASSUME NEW i \in DOMAIN O, O[i].name = "build-matrix" PROVE i = 7
    BY <1>2, <1>3, <1>5
  <1>6. Names1(7, 2, "build-matrix")
    BY <1>1, <1>2, <1>5, NotNull DEF Names1, O
  <1>7. ASSUME NEW k \in 1 .. 11, NEW n, n = O[k].short, n # NullText PROVE Names1(k, 1, n)
    <2>1. \A i \in DOMAIN O : O[i].short = n <=> i = k
      BY <1>1, <1>4, <1>7
    <2> QED
      BY <1>1, <1>7, <2>1 DEF Names1, O
  <1> QED
    BY <1>1, <1>6, <1>7, NotNull

(* Which options take a value. *)
LEMMA OptionsTake ==
  LET O == CompilerOptions
  IN  /\ O[1].takes /\ O[2].takes /\ O[3].takes /\ O[9].takes /\ O[10].takes
      /\ ~O[4].takes /\ ~O[5].takes /\ ~O[6].takes /\ ~O[7].takes
      /\ O[1].name = "dicdir" /\ O[2].name = "outdir" /\ O[3].name = "userdic"
      /\ O[4].name = "build-unknown" /\ O[5].name = "build-charcategory"
      /\ O[6].name = "build-sysdic" /\ O[7].name = "build-matrix"
      /\ O[9].name = "charset" /\ O[10].name = "dictionary-charset"
  BY DEF CompilerOptions, Opt

(* Options that take nothing are set to TRUE for good. *)
IsSet(c, ns) == \A n \in ns : n \in DOMAIN c /\ c[n] = TRUE

(* Setting an option unsets no other. *)
LEMMA SetKeeps ==
  ASSUME NEW c, NEW name, NEW ns, IsSet(c, ns)
  PROVE  IsSet(SetOn(c, name), ns \cup {name})
  BY DEF IsSet, Set, SetOn

(* An option with its value, and one without, among the arguments. *)
ValueAt(args, i, k, name, t) ==
  /\ args[i] = Flag(1, name) /\ args[i + 1] = Word(t) /\ Names1(k, 1, name)
  /\ CompilerOptions[k].takes /\ CompilerOptions[k].name # NullText

(* What a scan makes of an option with its value. *)
LEMMA ValueRead ==
  ASSUME NEW args, NEW n \in Nat, NEW st, IsScan(st, CompilerOptions, CompilerDefaults, args, n),
         NEW i \in 1 .. n - 1, NEW c, st[i - 1] = At(c, <<>>, NullText),
         NEW k, NEW name, NEW t, ValueAt(args, i, k, name, t)
  PROVE  st[i + 1] = At(Set(c, CompilerOptions[k].name, t), <<>>, NullText)
  <1>1. i \in 1 .. n /\ i + 1 \in 1 .. n /\ (i + 1) - 1 = i
    OBVIOUS
  <1>2. st[i] = Parse(CompilerOptions, At(c, <<>>, NullText), Flag(1, name))
    BY <1>1 DEF IsScan, ValueAt
  <1>3. st[i] = At(c, <<>>, CompilerOptions[k].name)
    <2>1. PICK r : r = <<>>
      OBVIOUS
    <2>2. Names1(k, 1, name) /\ CompilerOptions[k].takes
      BY DEF ValueAt
    <2>3. Parse(CompilerOptions, At(c, r, NullText), Flag(1, name)) = At(c, r, CompilerOptions[k].name)
      BY <2>2, ParseFlag
    <2> QED
      BY <1>2, <2>1, <2>3
  <1>4. st[i + 1] = Parse(CompilerOptions, st[i], Word(t))
    BY <1>1 DEF IsScan, ValueAt
  <1> QED
    BY <1>3, <1>4, ParseWord DEF ValueAt

FlagAt(args, i, k, dashes, name) ==
  /\ args[i] = Flag(dashes, name) /\ Names1(k, dashes, name)
  /\ ~CompilerOptions[k].takes

(* What a scan makes of an option without one. *)
LEMMA FlagRead ==
  ASSUME NEW args, NEW n \in Nat, NEW st, IsScan(st, CompilerOptions, CompilerDefaults, args, n),
         NEW i \in 1 .. n, NEW c, st[i - 1] = At(c, <<>>, NullText),
         NEW k, NEW dashes, NEW name, FlagAt(args, i, k, dashes, name)
  PROVE  st[i] = At(SetOn(c, CompilerOptions[k].name), <<>>, NullText)
  <1>1. st[i] = Parse(CompilerOptions, At(c, <<>>, NullText), Flag(dashes, name))
    BY DEF IsScan, FlagAt
  <1>3. PICK r : r = <<>>
    OBVIOUS
  <1>4. Names1(k, dashes, name) /\ ~CompilerOptions[k].takes
    BY DEF FlagAt
  <1>5. Parse(CompilerOptions, At(c, r, NullText), Flag(dashes, name)) =
          At(SetOn(c, CompilerOptions[k].name), r, NullText)
    BY <1>4, ParseFlag
  <1> QED
    BY <1>1, <1>3, <1>5

(* What the two R functions ask for. *)
SystemFlags == {"build-sysdic", "build-unknown", "build-charcategory", "build-matrix"}

(* The call of dict_index_sys asks for all four files. *)
LEMMA SystemArgsRead == IsSet(SystemArgs.conf, SystemFlags)
  <1> DEFINE args == Args("system")
  <1>1. /\ Len(args) = 12
        /\ args[1] = Flag(1, "d") /\ args[2] = Word("dic_dir") /\ args[3] = Flag(1, "o") /\ args[4] = Word("out_dir")
        /\ args[5] = Flag(1, "f") /\ args[6] = Word(RCharset) /\ args[7] = Flag(1, "t") /\ args[8] = Word("utf8")
        /\ args[9] = Flag(1, "s") /\ args[10] = Flag(1, "U") /\ args[11] = Flag(1, "C")
        /\ args[12] = Flag(2, "build-matrix")
    BY DEF Args
  <1> HIDE DEF args
  <1>2. PICK st : /\ IsScan(st, CompilerOptions, CompilerDefaults, args, 12)
                  /\ SystemArgs = IF st[12].refused \/ st[12].awaits # NullText THEN Refused
                                  ELSE Conf(st[12].conf, st[12].rest)
    <2>1. PICK st : /\ IsScan(st, CompilerOptions, CompilerDefaults, args, Len(args))
                    /\ OpenParam(CompilerOptions, CompilerDefaults, args) =
                         IF st[Len(args)].refused \/ st[Len(args)].awaits # NullText THEN Refused
                         ELSE Conf(st[Len(args)].conf, st[Len(args)].rest)
      <3>1. Len(args) \in Nat
        BY <1>1
      <3> QED
        BY <3>1, OpensFromScan
    <2>2. SystemArgs = OpenParam(CompilerOptions, CompilerDefaults, args)
      BY DEF SystemArgs, args
    <2> QED
      BY <1>1, <2>1, <2>2
  <1>3. st[0] = At(CompilerDefaults, <<>>, NullText)
    BY <1>2 DEF IsScan, At, FirstState
  <1>4. /\ ValueAt(args, 1, 1, "d", "dic_dir") /\ ValueAt(args, 3, 2, "o", "out_dir")
        /\ ValueAt(args, 5, 10, "f", RCharset) /\ ValueAt(args, 7, 9, "t", "utf8")
    BY <1>1, OptionsNamed, OptionsTake, NotNull DEF ValueAt
  <1>5. /\ FlagAt(args, 9, 6, 1, "s") /\ FlagAt(args, 10, 4, 1, "U") /\ FlagAt(args, 11, 5, 1, "C")
        /\ FlagAt(args, 12, 7, 2, "build-matrix")
    BY <1>1, OptionsNamed, OptionsTake, NotNull DEF FlagAt
  <1>6. PICK c2 : st[2] = At(c2, <<>>, NullText)
    <2>1. 1 \in 1 .. 12 - 1 /\ 1 - 1 = 0 /\ 1 + 1 = 2
      OBVIOUS
    <2> QED
      BY <1>2, <1>3, <1>4, <2>1, ValueRead
  <1>7. PICK c4 : st[4] = At(c4, <<>>, NullText)
    <2>1. 3 \in 1 .. 12 - 1 /\ 3 - 1 = 2 /\ 3 + 1 = 4
      OBVIOUS
    <2> QED
      BY <1>2, <1>6, <1>4, <2>1, ValueRead
  <1>8. PICK c6 : st[6] = At(c6, <<>>, NullText)
    <2>1. 5 \in 1 .. 12 - 1 /\ 5 - 1 = 4 /\ 5 + 1 = 6
      OBVIOUS
    <2> QED
      BY <1>2, <1>7, <1>4, <2>1, ValueRead
  <1>9. PICK c8 : st[8] = At(c8, <<>>, NullText)
    <2>1. 7 \in 1 .. 12 - 1 /\ 7 - 1 = 6 /\ 7 + 1 = 8
      OBVIOUS
    <2> QED
      BY <1>2, <1>8, <1>4, <2>1, ValueRead
  <1> DEFINE c9 == SetOn(c8, "build-sysdic")
             c10 == SetOn(c9, "build-unknown")
             c11 == SetOn(c10, "build-charcategory")
             c12 == SetOn(c11, "build-matrix")
  <1>10. st[9] = At(c9, <<>>, NullText)
    <2>1. 9 \in 1 .. 12 /\ 9 - 1 = 8
      OBVIOUS
    <2>2. st[9] = At(SetOn(c8, CompilerOptions[6].name), <<>>, NullText)
      BY <1>2, <1>9, <1>5, <2>1, FlagRead
    <2> QED
      BY <2>2, OptionsTake
  <1>11. st[10] = At(c10, <<>>, NullText)
    <2>1. 10 \in 1 .. 12 /\ 10 - 1 = 9
      OBVIOUS
    <2> HIDE DEF c9
    <2>2. st[10] = At(SetOn(c9, CompilerOptions[4].name), <<>>, NullText)
      BY <1>2, <1>10, <1>5, <2>1, FlagRead
    <2> QED
      BY <2>2, OptionsTake
  <1>12. st[11] = At(c11, <<>>, NullText)
    <2>1. 11 \in 1 .. 12 /\ 11 - 1 = 10
      OBVIOUS
    <2> HIDE DEF c10
    <2>2. st[11] = At(SetOn(c10, CompilerOptions[5].name), <<>>, NullText)
      BY <1>2, <1>11, <1>5, <2>1, FlagRead
    <2> QED
      BY <2>2, OptionsTake
  <1>13. st[12] = At(c12, <<>>, NullText)
    <2>1. 12 \in 1 .. 12 /\ 12 - 1 = 11
      OBVIOUS
    <2> HIDE DEF c11
    <2>2. st[12] = At(SetOn(c11, CompilerOptions[7].name), <<>>, NullText)
      BY <1>2, <1>12, <1>5, <2>1, FlagRead
    <2> QED
      BY <2>2, OptionsTake
  <1>14. IsSet(c12, SystemFlags)
    <2>1. IsSet(c8, {})
      BY DEF IsSet
    <2> HIDE DEF c9
    <2>2. IsSet(c9, {"build-sysdic"})
      <3>1. IsSet(c9, {} \cup {"build-sysdic"})
        BY <2>1, SetKeeps DEF c9
      <3>2. {} \cup {"build-sysdic"} = {"build-sysdic"}
        OBVIOUS
      <3> QED
        BY <3>1, <3>2
    <2> HIDE DEF c10
    <2>3. IsSet(c10, {"build-sysdic", "build-unknown"})
      <3>1. IsSet(c10, {"build-sysdic"} \cup {"build-unknown"})
        BY <2>2, SetKeeps DEF c10
      <3>2. {"build-sysdic"} \cup {"build-unknown"} = {"build-sysdic", "build-unknown"}
        OBVIOUS
      <3> QED
        BY <3>1, <3>2
    <2> HIDE DEF c11
    <2>4. IsSet(c11, {"build-sysdic", "build-unknown", "build-charcategory"})
      <3>1. IsSet(c11, {"build-sysdic", "build-unknown"} \cup {"build-charcategory"})
        BY <2>3, SetKeeps DEF c11
      <3> QED
        BY <3>1 DEF IsSet
    <2>5. IsSet(c12, {"build-sysdic", "build-unknown", "build-charcategory"} \cup {"build-matrix"})
      BY <2>4, SetKeeps
    <2> HIDE DEF c12
    <2> QED
      BY <2>5 DEF IsSet, SystemFlags
  <1> HIDE DEF c12
  <1>15. SystemArgs = Conf(c12, <<>>)
    BY <1>2, <1>13 DEF At
  <1> QED
    BY <1>14, <1>15 DEF Conf

(* The call of dict_index_user names a user dictionary. *)
LEMMA UserArgsRead == "userdic" \in DOMAIN UserArgs.conf
  <1> DEFINE args == Args("user")
  <1>1. /\ Len(args) = 9
        /\ args[1] = Flag(1, "d") /\ args[2] = Word("dic_dir") /\ args[3] = Flag(1, "u") /\ args[4] = Word("file")
        /\ args[5] = Flag(1, "f") /\ args[6] = Word(RCharset) /\ args[7] = Flag(1, "t") /\ args[8] = Word("utf8")
        /\ args[9] = Word("csv_file")
    BY DEF Args
  <1> HIDE DEF args
  <1>2. PICK st : /\ IsScan(st, CompilerOptions, CompilerDefaults, args, 9)
                  /\ UserArgs = IF st[9].refused \/ st[9].awaits # NullText THEN Refused
                                ELSE Conf(st[9].conf, st[9].rest)
    <2>1. PICK st : /\ IsScan(st, CompilerOptions, CompilerDefaults, args, Len(args))
                    /\ OpenParam(CompilerOptions, CompilerDefaults, args) =
                         IF st[Len(args)].refused \/ st[Len(args)].awaits # NullText THEN Refused
                         ELSE Conf(st[Len(args)].conf, st[Len(args)].rest)
      <3>1. Len(args) \in Nat
        BY <1>1
      <3> QED
        BY <3>1, OpensFromScan
    <2>2. UserArgs = OpenParam(CompilerOptions, CompilerDefaults, args)
      BY DEF UserArgs, args
    <2> QED
      BY <1>1, <2>1, <2>2
  <1>3. st[0] = At(CompilerDefaults, <<>>, NullText)
    BY <1>2 DEF IsScan, At, FirstState
  <1>4. /\ ValueAt(args, 1, 1, "d", "dic_dir") /\ ValueAt(args, 3, 3, "u", "file")
        /\ ValueAt(args, 5, 10, "f", RCharset) /\ ValueAt(args, 7, 9, "t", "utf8")
    BY <1>1, OptionsNamed, OptionsTake, NotNull DEF ValueAt
  <1>5. PICK c2 : st[2] = At(c2, <<>>, NullText)
    <2>1. 1 \in 1 .. 9 - 1 /\ 1 - 1 = 0 /\ 1 + 1 = 2
      OBVIOUS
    <2> QED
      BY <1>2, <1>3, <1>4, <2>1, ValueRead
  <1> DEFINE c4 == Set(c2, "userdic", "file")
             c6 == Set(c4, "dictionary-charset", RCharset)
             c8 == Set(c6, "charset", "utf8")
  <1>6. st[4] = At(c4, <<>>, NullText)
    <2>1. 3 \in 1 .. 9 - 1 /\ 3 - 1 = 2 /\ 3 + 1 = 4
      OBVIOUS
    <2>2. st[4] = At(Set(c2, CompilerOptions[3].name, "file"), <<>>, NullText)
      BY <1>2, <1>4, <1>5, <2>1, ValueRead
    <2> QED
      BY <2>2, OptionsTake
  <1>7. st[6] = At(c6, <<>>, NullText)
    <2>1. 5 \in 1 .. 9 - 1 /\ 5 - 1 = 4 /\ 5 + 1 = 6
      OBVIOUS
    <2> HIDE DEF c4
    <2>2. st[6] = At(Set(c4, CompilerOptions[10].name, RCharset), <<>>, NullText)
      BY <1>2, <1>4, <1>6, <2>1, ValueRead
    <2> QED
      BY <2>2, OptionsTake
  <1>8. st[8] = At(c8, <<>>, NullText)
    <2>1. 7 \in 1 .. 9 - 1 /\ 7 - 1 = 6 /\ 7 + 1 = 8
      OBVIOUS
    <2> HIDE DEF c6
    <2>2. st[8] = At(Set(c6, CompilerOptions[9].name, "utf8"), <<>>, NullText)
      BY <1>2, <1>4, <1>7, <2>1, ValueRead
    <2> QED
      BY <2>2, OptionsTake
  <1>9. "userdic" \in DOMAIN c8
    BY DEF Set
  <1> HIDE DEF c8
  <1>10. st[9] = At(c8, Append(<<>>, "csv_file"), NullText)
    <2>1. 9 \in 1 .. 9 /\ 9 - 1 = 8
      OBVIOUS
    <2>2. st[9] = Parse(CompilerOptions, st[8], Word("csv_file"))
      BY <1>1, <1>2, <2>1 DEF IsScan
    <2>3. PICK r : r = <<>>
      OBVIOUS
    <2>4. Parse(CompilerOptions, At(c8, r, NullText), Word("csv_file")) = At(c8, Append(r, "csv_file"), NullText)
      BY ParseWord
    <2> QED
      BY <1>8, <2>2, <2>3, <2>4
  <1>11. UserArgs = Conf(c8, Append(<<>>, "csv_file"))
    BY <1>2, <1>10 DEF At
  <1> QED
    BY <1>9, <1>11 DEF Conf

(* The dicrc sets nothing that the call has set. *)
LEMMA LoadKeeps ==
  ASSUME NEW c, NEW lines
  PROVE  /\ DOMAIN c \subseteq DOMAIN Load(c, lines)
         /\ \A n \in DOMAIN c : Load(c, lines)[n] = c[n]
  BY DEF Load

(* One element behind another. *)
LEMMA Lengthened ==
  ASSUME NEW S, NEW s \in Seq(S), NEW x \in S, NEW t, t = s \o <<x>>
  PROVE  /\ t \in Seq(S) /\ Len(t) = Len(s) + 1 /\ t[Len(t)] = x
         /\ \A i \in 1 .. Len(s) : t[i] = s[i]
  <1>1. <<x>> \in Seq(S) /\ Len(<<x>>) = 1 /\ <<x>>[1] = x /\ Len(s) \in Nat
    OBVIOUS
  <1>2. PICK u : u = <<x>>
    OBVIOUS
  <1>3. u \in Seq(S) /\ Len(u) = 1 /\ u[1] = x /\ t = s \o u
    BY <1>1, <1>2
  <1> QED
    BY <1>1, <1>3

(* The fourth element of a sequence is the last appended. *)
LEMMA Fourth ==
  ASSUME NEW S, NEW s \in Seq(S), NEW x \in S, NEW t, t = s \o <<x>>, Len(s) = 3
  PROVE  t[4] = x
  <1>1. Len(t) = 4
    BY Lengthened
  <1>2. t[Len(t)] = x
    BY Lengthened
  <1> QED
    BY <1>1, <1>2

(* Four sequences of one element make one of four. *)
LEMMA FourInARow ==
  ASSUME NEW S, NEW a \in S, NEW b \in S, NEW c \in S, NEW e \in S
  PROVE  <<a>> \o <<b>> \o <<c>> \o <<e>> = <<a, b, c, e>>
  <1>1. PICK s1 : s1 = <<a>>
    BY Zenon
  <1>2. PICK s2 : s2 = s1 \o <<b>>
    BY Zenon
  <1>3. PICK s3 : s3 = s2 \o <<c>>
    BY Zenon
  <1>4. PICK s4 : s4 = s3 \o <<e>>
    BY Zenon
  <1>5. s1 \in Seq(S) /\ Len(s1) = 1 /\ s1[1] = a
    BY <1>1
  <1>6. s2 \in Seq(S) /\ Len(s2) = 2 /\ s2[2] = b /\ \A i \in 1 .. 1 : s2[i] = s1[i]
    BY <1>2, <1>5, Lengthened
  <1>7. s3 \in Seq(S) /\ Len(s3) = 3 /\ s3[3] = c /\ \A i \in 1 .. 2 : s3[i] = s2[i]
    BY <1>3, <1>6, Lengthened
  <1>8. s4 \in Seq(S) /\ Len(s4) = 4 /\ s4[4] = e /\ \A i \in 1 .. 3 : s4[i] = s3[i]
    <2>1. s3 \in Seq(S) /\ Len(s3) = 3
      BY <1>7
    <2>2. s4 \in Seq(S)
      BY <1>4, <2>1, Lengthened, Zenon
    <2>3. Len(s4) = 4
      BY <1>4, <2>1, Lengthened
    <2>4. s4[4] = e
      BY <1>4, <2>1, Fourth, Zenon
    <2>5. \A i \in 1 .. 3 : s4[i] = s3[i]
      BY <1>4, <2>1, Lengthened
    <2> QED
      BY <2>2, <2>3, <2>4, <2>5
  <1>9. s4[1] = a /\ s4[2] = b /\ s4[3] = c /\ s4[4] = e /\ s4 = [i \in 1 .. 4 |-> s4[i]]
    BY <1>5, <1>6, <1>7, <1>8
  <1>10. s4 = <<a, b, c, e>>
    BY <1>9
  <1> QED
    BY <1>1, <1>2, <1>3, <1>4, <1>10, Zenon

(* A run writes the user dictionary, or the four files of a directory. *)
LEMMA Plans ==
  ASSUME NEW kind \in {"system", "user"}
  PROVE  PlanOf(BuildConf(kind)) \in {Order, <<"user">>}
  <1>1. ASSUME kind = "user" PROVE "userdic" \in DOMAIN BuildConf(kind)
    BY <1>1, UserArgsRead, LoadKeeps DEF BuildConf
  <1>2. CASE "userdic" \in DOMAIN BuildConf(kind)
    BY <1>2 DEF PlanOf
  <1>3. CASE "userdic" \notin DOMAIN BuildConf(kind)
    <2>1. PICK conf : conf = BuildConf(kind)
      OBVIOUS
    <2>2. IsSet(conf, SystemFlags)
      <3>1. kind = "system"
        BY <1>1, <1>3
      <3>2. PICK c : c = SystemArgs.conf
        OBVIOUS
      <3>3. conf = Load(c, source.dicrc)
        BY <2>1, <3>1, <3>2 DEF BuildConf
      <3>4. IsSet(c, SystemFlags)
        BY <3>2, SystemArgsRead
      <3> QED
        BY <3>3, <3>4, LoadKeeps DEF IsSet
    <2>3. \A n \in SystemFlags : Get(conf, n, FALSE) = TRUE
      BY <2>2 DEF IsSet, Get
    <2>4. /\ Get(conf, "build-charcategory", FALSE) /\ Get(conf, "build-unknown", FALSE)
          /\ Get(conf, "build-sysdic", FALSE) /\ Get(conf, "build-matrix", FALSE)
      BY <2>3, Zenon DEF SystemFlags
    <2>5. PlanOf(conf) = <<"char">> \o <<"unk">> \o <<"sys">> \o <<"matrix">>
      BY <1>3, <2>1, <2>4, Zenon DEF PlanOf
    <2>6. <<"char">> \o <<"unk">> \o <<"sys">> \o <<"matrix">> = Order
      <3>1. PICK S : S = {"char", "unk", "sys", "matrix"}
        BY Zenon
      <3>2. "char" \in S /\ "unk" \in S /\ "sys" \in S /\ "matrix" \in S
        BY <3>1
      <3>3. <<"char">> \o <<"unk">> \o <<"sys">> \o <<"matrix">> = <<"char", "unk", "sys", "matrix">>
        BY <3>2, FourInARow, Zenon
      <3> QED
        BY <3>3 DEF Order
    <2> QED
      BY <2>1, <2>5, <2>6
  <1> QED
    BY <1>2, <1>3
-----------------------------------------------------------------------------
(* Where a run is among its files.                                           *)

(* Where a build of a directory is: k files are written, the next may be   *)
(* open, and those behind it are not of this run.                          *)
Behind(k) == [i \in 1 .. 4 - k |-> Order[i + k]]
SystemAt(k) ==
  /\ plan = Behind(k) /\ (pending => OfRun(Order[k + 1]))
  /\ \A i \in 1 .. k : Written(Order[i])
  /\ \A i \in k + 1 .. 4 : OfRun(Order[i]) => pending /\ i = k + 1

(* A build of the user dictionary has one file to write and touches none of *)
(* the others.                                                             *)
UserAt ==
  /\ \A i \in 1 .. 4 : ~OfRun(Order[i])
  /\ \/ plan = <<"user">> /\ (pending => OfRun("user"))
     \/ plan = <<>> /\ ~pending /\ Written("user")

Numbered ==
  /\ runs \in Nat /\ (outcome = "running" => runs > 0)
  /\ \A f \in Names : files[f] # NoFile => files[f].run \in 1 .. runs
Progress == outcome = "running" => UserAt \/ \E k \in 0 .. 4 : SystemAt(k)
RunOK == FilesOK /\ Numbered /\ Progress /\ ResultOfRun

(* The four files of a directory, all different. *)
LEMMA OrderIs ==
  /\ Order[1] = "char" /\ Order[2] = "unk" /\ Order[3] = "sys" /\ Order[4] = "matrix"
  /\ \A i \in 1 .. 4 : Order[i] \in Names /\ Order[i] # "user"
  /\ \A i, j \in 1 .. 4 : Order[i] = Order[j] => i = j
  <1>1. Order[1] = "char" /\ Order[2] = "unk" /\ Order[3] = "sys" /\ Order[4] = "matrix"
    BY DEF Order
  <1>2. \A i \in 1 .. 4 : i = 1 \/ i = 2 \/ i = 3 \/ i = 4
    OBVIOUS
  <1> QED
    BY <1>1, <1>2 DEF Names

(* The plan of a directory, file by file. *)
LEMMA BehindHead ==
  /\ Behind(0) = Order /\ Behind(4) = <<>>
  /\ \A k \in 0 .. 3 : Behind(k) # <<>> /\ Head(Behind(k)) = Order[k + 1] /\ Tail(Behind(k)) = Behind(k + 1)
  <1>1. Behind(0) = Order
    <2>1. PICK S : S = {"char", "unk", "sys", "matrix"}
      BY Zenon
    <2>2. Order \in Seq(S) /\ Len(Order) = 4
      BY <2>1 DEF Order
    <2>3. Behind(0) = [i \in 1 .. 4 |-> Order[i]]
      BY DEF Behind
    <2> QED
      BY <2>2, <2>3
  <1>2. Behind(4) = <<>>
    BY DEF Behind
  <1>3. ASSUME NEW k \in 0 .. 3
        PROVE  Behind(k) # <<>> /\ Head(Behind(k)) = Order[k + 1] /\ Tail(Behind(k)) = Behind(k + 1)
    <2> DEFINE b == Behind(k)
    <2>1. b \in Seq(Names) /\ Len(b) = 4 - k /\ \A i \in 1 .. 4 - k : b[i] = Order[i + k]
      <3>1. \A i \in 1 .. 4 - k : Order[i + k] \in Names
        BY OrderIs
      <3> QED
        BY <3>1 DEF Behind
    <2> HIDE DEF b
    <2>2. b # <<>> /\ Head(b) = Order[k + 1]
      BY <2>1
    <2>3. Tail(b) \in Seq(Names) /\ Len(Tail(b)) = 3 - k /\ \A i \in 1 .. 3 - k : Tail(b)[i] = Order[i + 1 + k]
      BY <2>1
    <2>4. Tail(b) = [i \in 1 .. 4 - (k + 1) |-> Order[i + (k + 1)]]
      <3>1. 4 - (k + 1) = 3 - k /\ \A i \in 1 .. 3 - k : i + 1 + k = i + (k + 1)
        OBVIOUS
      <3>2. PICK t : t = Tail(b)
        BY Zenon
      <3>3. t \in Seq(Names) /\ Len(t) = 3 - k
        BY <2>3, <3>2
      <3>4. t = [i \in 1 .. 3 - k |-> t[i]]
        BY <3>3
      <3> QED
        BY <2>3, <3>1, <3>2, <3>4, Zenon
    <2> QED
      BY <2>2, <2>4, Zenon DEF b, Behind
  <1> QED
    BY <1>1, <1>2, <1>3, Zenon

(* What is to be written next is one of the files, and the file of a       *)
(* directory that is next is not yet of this run.                          *)
LEMMA HeadOfPlan ==
  ASSUME RunOK, outcome = "running", plan # <<>>
  PROVE  Head(plan) \in Names
  <1>1. CASE UserAt
    <2>1. plan = <<"user">>
      BY <1>1 DEF UserAt
    <2> QED
      BY <2>1 DEF Names
  <1>2. ASSUME NEW k \in 0 .. 4, SystemAt(k) PROVE Head(plan) \in Names
    BY <1>2, BehindHead, OrderIs DEF SystemAt
  <1> QED
    BY <1>1, <1>2 DEF RunOK, Progress

(* A step of a run that changes one file, which is of this run afterwards,  *)
(* keeps what is known of the others.                                      *)
OneFile(h) ==
  /\ h \in Names /\ files'[h] # NoFile /\ files'[h].run = runs
  /\ \A f \in Names : f # h => files'[f] = files[f]
  /\ UNCHANGED runs
(* Nothing changes for the other files. *)
LEMMA Others ==
  ASSUME RunOK, NEW h, OneFile(h), outcome = "running"
  PROVE  /\ Numbered'
         /\ OfRun(h)'
         /\ \A f \in Names : f # h => OfRun(f)' = OfRun(f) /\ Written(f)' = Written(f)
  <1>1. runs' = runs /\ runs \in Nat /\ runs > 0
    BY DEF OneFile, RunOK, Numbered
  <1>2. OfRun(h)'
    BY <1>1 DEF OfRun, OneFile
  <1>3. \A f \in Names : f # h => OfRun(f)' = OfRun(f) /\ Written(f)' = Written(f)
    BY <1>1 DEF OfRun, Written, Whole, OneFile
  <1>4. ASSUME NEW f \in Names, files'[f] # NoFile PROVE files'[f].run \in 1 .. runs'
    <2>1. CASE f = h
      BY <1>1, <2>1 DEF OneFile
    <2>2. CASE f # h
      BY <1>1, <1>4, <2>2 DEF OneFile, RunOK, Numbered
    <2> QED
      BY <2>1, <2>2
  <1>5. Numbered'
    BY <1>1, <1>4 DEF Numbered
  <1> QED
    BY <1>2, <1>3, <1>5

(* A file is opened, or a part of it written. *)
LEMMA Opened ==
  ASSUME RunOK, outcome = "running", plan # <<>>, OneFile(Head(plan)), pending',
         UNCHANGED <<plan, outcome>>
  PROVE  Numbered' /\ Progress' /\ ResultOfRun'
  <1> DEFINE h == Head(plan)
  <1>1. /\ Numbered' /\ OfRun(h)' /\ h \in Names
        /\ \A f \in Names : f # h => OfRun(f)' = OfRun(f) /\ Written(f)' = Written(f)
    BY Others DEF OneFile
  <1>2. plan' = plan /\ outcome' = "running" /\ pending'
    OBVIOUS
  <1>3. ResultOfRun'
    BY <1>2 DEF ResultOfRun
  <1>4. ASSUME UserAt PROVE UserAt'
    <2>1. plan = <<"user">> /\ h = "user"
      BY <1>4 DEF UserAt
    <2>2. \A i \in 1 .. 4 : ~OfRun(Order[i])'
      BY <1>1, <1>4, <2>1, OrderIs DEF UserAt
    <2> QED
      BY <1>1, <1>2, <2>1, <2>2 DEF UserAt
  <1>5. ASSUME NEW k \in 0 .. 4, SystemAt(k) PROVE SystemAt(k)'
    <2>1. k \in 0 .. 3 /\ h = Order[k + 1] /\ plan' = Behind(k)
      BY <1>2, <1>5, BehindHead DEF SystemAt
    <2>2. \A i \in 1 .. 4 : i # k + 1 => Order[i] \in Names /\ Order[i] # h
      BY <2>1, OrderIs
    <2>3. \A i \in 1 .. k : Written(Order[i])'
      BY <1>1, <1>5, <2>1, <2>2 DEF SystemAt
    <2>4. ASSUME NEW i \in k + 1 .. 4, OfRun(Order[i])' PROVE i = k + 1
      BY <1>1, <1>5, <2>1, <2>2, <2>4 DEF SystemAt
    <2> QED
      BY <1>1, <1>2, <2>1, <2>3, <2>4 DEF SystemAt, Behind
  <1> QED
    BY <1>1, <1>2, <1>3, <1>4, <1>5 DEF RunOK, Progress

(* A file that is whole, or to which a write has failed. *)
CanEnd(x, h) == (x.bytes = All /\ (IsDic(h) => x.magic = All)) \/ x.bad

(* A file that is open and written to its end, or cannot be, is closed. *)
Closes(h) ==
  /\ outcome = "running" /\ plan # <<>> /\ h = Head(plan) /\ OneFile(h)
  /\ pending /\ CanEnd(files'[h], h)
  /\ plan' = Tail(plan) /\ ~pending' /\ UNCHANGED outcome
LEMMA Finished ==
  ASSUME RunOK, NEW h, Closes(h)
  PROVE  Numbered' /\ Progress' /\ ResultOfRun'
  <1>a. OneFile(h) /\ outcome = "running"
    BY Zenon DEF Closes
  <1>1. /\ Numbered' /\ OfRun(h)' /\ h \in Names
        /\ \A f \in Names : f # h => OfRun(f)' = OfRun(f) /\ Written(f)' = Written(f)
    BY <1>a, Others DEF OneFile
  <1>b. outcome' = "running" /\ ~pending' /\ Written(h)'
    <2>1. outcome' = outcome /\ ~pending' /\ CanEnd(files'[h], h)
      BY Zenon DEF Closes
    <2> QED
      BY <1>a, <1>1, <2>1, Zenon DEF Written, Whole, CanEnd
  <1>2. plan' = Tail(plan) /\ outcome' = "running" /\ ~pending' /\ Written(h)'
    BY <1>b, Zenon DEF Closes
  <1>c. plan # <<>> /\ h = Head(plan) /\ pending
    BY Zenon DEF Closes
  <1>3. ResultOfRun'
    BY <1>2 DEF ResultOfRun
  <1>4. ASSUME UserAt PROVE UserAt'
    <2>1. plan = <<"user">> /\ h = "user"
      BY <1>c, <1>4 DEF UserAt
    <2>2. plan' = <<>>
      BY <1>2, <2>1
    <2>3. \A i \in 1 .. 4 : ~OfRun(Order[i])'
      BY <1>1, <1>4, <2>1, OrderIs DEF UserAt
    <2> QED
      BY <1>2, <2>1, <2>2, <2>3 DEF UserAt
  <1>5. ASSUME NEW k \in 0 .. 4, SystemAt(k) PROVE k \in 0 .. 3 /\ SystemAt(k + 1)'
    <2>1. k \in 0 .. 3 /\ h = Order[k + 1] /\ plan' = Behind(k + 1)
      <3>1. plan = Behind(k) /\ k # 4
        BY <1>c, <1>5, BehindHead, Zenon DEF SystemAt
      <3>2. k \in 0 .. 3
        BY <3>1
      <3> QED
        BY <1>2, <1>c, <3>1, <3>2, BehindHead, Zenon
    <2>2. \A i \in 1 .. 4 : i # k + 1 => Order[i] \in Names /\ Order[i] # h
      BY <2>1, OrderIs
    <2>3. \A i \in 1 .. k + 1 : Written(Order[i])'
      BY <1>1, <1>2, <1>5, <2>1, <2>2 DEF SystemAt
    <2>4. ASSUME NEW i \in k + 2 .. 4 PROVE ~OfRun(Order[i])'
      BY <1>1, <1>5, <2>1, <2>2, <2>4 DEF SystemAt
    <2>5. (k + 1) + 1 = k + 2
      BY <2>1
    <2> QED
      BY <1>2, <2>1, <2>3, <2>4, <2>5, Zenon DEF SystemAt, Behind
  <1>6. ASSUME NEW k \in 0 .. 4, SystemAt(k) PROVE \E j \in 0 .. 4 : SystemAt(j)'
    <2>1. k + 1 \in 0 .. 4
      BY <1>5, <1>6
    <2> QED
      BY <1>5, <1>6, <2>1
  <1> QED
    BY <1>a, <1>1, <1>3, <1>4, <1>6 DEF RunOK, Progress

(* A run that ends without having come to its end. *)
LEMMA Stopped ==
  ASSUME RunOK, outcome = "running", UNCHANGED <<files, runs>>,
         outcome' \in {"died", "false"}, outcome' = "false" => ~pending
  PROVE  Numbered' /\ Progress' /\ ResultOfRun'
  <1>1. Numbered' /\ Progress'
    BY DEF Numbered, Progress, RunOK
  <1>2. ASSUME outcome' = "false", NEW i \in 1 .. 4, OfRun(Order[i]), NEW j \in 1 .. i
        PROVE  Written(Order[j])
    <2>1. ~pending
      BY <1>2
    <2>2. PICK k \in 0 .. 4 : SystemAt(k)
      BY <1>2 DEF RunOK, Progress, UserAt
    <2>3. i \in 1 .. k
      BY <1>2, <2>1, <2>2 DEF SystemAt
    <2>4. j \in 1 .. k
      BY <2>3
    <2> QED
      BY <2>2, <2>4 DEF SystemAt
  <1>3. \A i \in 1 .. 4 : OfRun(Order[i])' = OfRun(Order[i]) /\ Written(Order[i])' = Written(Order[i])
    BY DEF OfRun, Written, Whole
  <1>4. \A i \in 1 .. 4 : \A j \in 1 .. i : Written(Order[j])' = Written(Order[j])
    BY <1>3
  <1>5. CASE outcome' = "false"
    BY <1>1, <1>2, <1>3, <1>4, <1>5 DEF ResultOfRun
  <1>6. CASE outcome' = "died"
    BY <1>1, <1>6 DEF ResultOfRun
  <1> QED
    BY <1>5, <1>6

(* A run that comes to its end has written what it had to. *)
LEMMA Ended ==
  ASSUME RunOK, Finish PROVE Numbered' /\ Progress' /\ ResultOfRun'
  <1>1. outcome = "running" /\ plan = <<>> /\ outcome' = "true" /\ UNCHANGED <<files, runs>>
    BY DEF Finish
  <1>2. Numbered' /\ Progress'
    BY <1>1 DEF Numbered, Progress, RunOK
  <1>3. CASE UserAt
    <2>1. Written("user")
      BY <1>1, <1>3 DEF UserAt
    <2> QED
      <3>1. Written("user")'
        BY <1>1, <2>1 DEF Written, Whole, OfRun
      <3> QED
        BY <1>1, <1>2, <3>1 DEF ResultOfRun
  <1>4. ASSUME NEW k \in 0 .. 4, SystemAt(k) PROVE ResultOfRun'
    <2>1. k = 4
      BY <1>1, <1>4, BehindHead DEF SystemAt
    <2>2. \A i \in 1 .. 4 : Written(Order[i])
      BY <1>4, <2>1 DEF SystemAt
    <2>3. \A f \in Names \ {"user"} : Written(f)
      BY <2>2, OrderIs DEF Names
    <2> QED
      <3>1. \A f \in Names \ {"user"} : Written(f)'
        BY <1>1, <2>3 DEF Written, Whole, OfRun
      <3> QED
        BY <1>1, <3>1 DEF ResultOfRun
  <1> QED
    BY <1>1, <1>2, <1>3, <1>4 DEF RunOK, Progress

(* What the rest of a step is about. *)
RunState == <<files, plan, pending, outcome, runs>>
LEMMA Stayed ==
  ASSUME RunOK, UNCHANGED RunState PROVE Numbered' /\ Progress' /\ ResultOfRun'
  <1>1. Numbered'
    BY DEF RunOK, Numbered, RunState
  <1>2. \A f : OfRun(f)' = OfRun(f) /\ Written(f)' = Written(f)
    BY DEF OfRun, Written, Whole, RunState
  <1>3. UserAt' = UserAt
    BY <1>2 DEF UserAt, RunState
  <1>4. \A k : SystemAt(k)' = SystemAt(k)
    BY <1>2 DEF SystemAt, Behind, RunState
  <1>5. Progress'
    BY <1>3, <1>4 DEF RunOK, Progress, RunState
  <1>6. \A i : OfRun(Order[i])' = OfRun(Order[i]) /\ Written(Order[i])' = Written(Order[i])
    BY <1>2
  <1>7. ResultOfRun'
    BY <1>2, <1>6 DEF RunOK, ResultOfRun, RunState
  <1> QED
    BY <1>1, <1>5, <1>7

(* A run begins with no file of its own, and a plan or none. *)
LEMMA Begun ==
  ASSUME RunOK, NEW kind \in {"system", "user"}, Run(kind)
  PROVE  Numbered' /\ Progress' /\ ResultOfRun'
  <1>1. /\ outcome # "running" /\ runs' = runs + 1 /\ UNCHANGED files
        /\ \/ outcome' = "false"
           \/ plan' = PlanOf(BuildConf(kind)) /\ outcome' = "running" /\ UNCHANGED pending
    BY Zenon DEF Run, Fails
  <1>2. runs \in Nat /\ \A f \in Names : files[f] # NoFile => files[f].run \in 1 .. runs
    BY DEF RunOK, Numbered
  <1>3. Numbered'
    BY <1>1, <1>2 DEF Numbered
  <1>4. \A f \in Names : ~OfRun(f)'
    BY <1>1, <1>2 DEF OfRun
  <1>5. \A i \in 1 .. 4 : ~OfRun(Order[i])'
    BY <1>4, OrderIs
  <1>6. CASE outcome' = "false"
    BY <1>3, <1>5, <1>6 DEF Progress, ResultOfRun
  <1>7. CASE plan' = PlanOf(BuildConf(kind)) /\ outcome' = "running" /\ UNCHANGED pending
    <2>1. ~pending'
      BY <1>1, <1>7 DEF RunOK, FilesOK
    <2>2. plan' \in {Order, <<"user">>}
      BY <1>7, Plans
    <2>3. CASE plan' = Order
      <3>1. SystemAt(0)'
        BY <1>5, <2>1, <2>3, BehindHead DEF SystemAt, Behind
      <3> QED
        BY <1>3, <1>7, <3>1 DEF Progress, ResultOfRun
    <2>4. CASE plan' = <<"user">>
      <3>1. UserAt'
        BY <1>5, <2>1, <2>4 DEF UserAt
      <3> QED
        BY <1>3, <1>7, <3>1 DEF Progress, ResultOfRun
    <2> QED
      BY <2>2, <2>3, <2>4
  <1> QED
    BY <1>1, <1>6, <1>7

(* The three writing steps change the first file of the plan. *)
LEMMA TruncatesOne ==
  ASSUME RunOK, NEW content, Going, Truncate(content), UNCHANGED <<plan, outcome, runs>>
  PROVE  Numbered' /\ Progress' /\ ResultOfRun'
  <1> DEFINE h == Head(plan)
             new == [magic |-> 0, bytes |-> 0, content |-> content, run |-> runs, bad |-> FALSE]
  <1>1. /\ outcome = "running" /\ plan # <<>> /\ pending' = TRUE
        /\ files' = [files EXCEPT ![h] = new]
    BY DEF Going, Truncate
  <1>2. h \in Names
    BY <1>1, HeadOfPlan
  <1>3. new # NoFile /\ new.run = runs
    <2>1. runs > 0
      BY <1>1 DEF RunOK, Numbered
    <2> QED
      BY <2>1 DEF NoFile
  <1> HIDE DEF h, new
  <1>4. files'[h] = new /\ \A f \in Names : f # h => files'[f] = files[f]
    BY <1>1, <1>2 DEF RunOK, FilesOK
  <1>5. OneFile(h)
    BY <1>2, <1>3, <1>4 DEF OneFile
  <1> QED
    BY <1>1, <1>5, Opened DEF h

(* A file that is open is of this run. *)
LEMMA OpenIsNew ==
  ASSUME RunOK, outcome = "running", pending
  PROVE  /\ plan # <<>> /\ Head(plan) \in Names
         /\ IsFile(files[Head(plan)]) /\ files[Head(plan)].run = runs
  <1>1. plan # <<>>
    BY DEF RunOK, FilesOK
  <1>2. Head(plan) \in Names
    BY <1>1, HeadOfPlan
  <1>3. IsFile(files[Head(plan)])
    BY <1>2 DEF RunOK, FilesOK
  <1>4. CASE UserAt
    <2>1. Head(plan) = "user" /\ OfRun("user")
      BY <1>1, <1>4 DEF UserAt
    <2> QED
      BY <1>1, <1>2, <1>3, <2>1 DEF OfRun
  <1>5. ASSUME NEW k \in 0 .. 4, SystemAt(k) PROVE files[Head(plan)].run = runs
    <2>1. plan = Behind(k) /\ OfRun(Order[k + 1])
      BY <1>5 DEF SystemAt
    <2>2. k \in 0 .. 3
      BY <1>1, <2>1, BehindHead
    <2>3. Head(plan) = Order[k + 1]
      BY <2>1, <2>2, BehindHead, Zenon
    <2> QED
      BY <2>1, <2>3 DEF OfRun
  <1> QED
    BY <1>1, <1>2, <1>3, <1>4, <1>5 DEF RunOK, Progress

(* A file of this run with another size or magic number is still one. *)
LEMMA Rewritten ==
  ASSUME RunOK, outcome = "running", pending, NEW m, NEW b, NEW bad, UNCHANGED runs,
         files' = [files EXCEPT ![Head(plan)] =
                     [magic |-> m, bytes |-> b, content |-> files[Head(plan)].content,
                      run |-> files[Head(plan)].run, bad |-> bad]]
  PROVE  OneFile(Head(plan)) /\ files'[Head(plan)].bytes = b /\ files'[Head(plan)].magic = m
  <1> DEFINE h == Head(plan)
             new == [magic |-> m, bytes |-> b, content |-> files[h].content, run |-> files[h].run,
                     bad |-> bad]
  <1>1. h \in Names /\ files[h].run = runs
    BY OpenIsNew
  <1>2. new # NoFile /\ new.run = runs /\ new.bytes = b /\ new.magic = m
    <2>1. runs > 0
      BY DEF RunOK, Numbered
    <2> QED
      BY <1>1, <2>1 DEF NoFile
  <1>3. files' = [files EXCEPT ![h] = new]
    OBVIOUS
  <1> HIDE DEF h, new
  <1>4. files'[h] = new /\ \A f \in Names : f # h => files'[f] = files[f]
    BY <1>1, <1>3 DEF RunOK, FilesOK
  <1>5. OneFile(h) /\ files'[h].bytes = b /\ files'[h].magic = m
    BY <1>1, <1>2, <1>4 DEF OneFile
  <1> QED
    BY <1>5 DEF h

(* A writer goes on with the first file of the plan. *)
LEMMA FillsOne ==
  ASSUME RunOK, Fill PROVE Numbered' /\ Progress' /\ ResultOfRun'
  <1> DEFINE x == files[Head(plan)]
  <1>1. /\ outcome = "running" /\ pending
        /\ files' = [files EXCEPT ![Head(plan)] = [x EXCEPT !.bytes = @ + 1]]
        /\ UNCHANGED <<plan, pending, outcome, runs>>
    BY DEF Fill, Writing
  <1>2. IsFile(x) /\ plan # <<>>
    BY <1>1, OpenIsNew
  <1> HIDE DEF x
  <1>3. [x EXCEPT !.bytes = @ + 1] =
          [magic |-> x.magic, bytes |-> x.bytes + 1, content |-> x.content, run |-> x.run, bad |-> x.bad]
    BY <1>2 DEF IsFile
  <1>4. OneFile(Head(plan))
    BY <1>1, <1>3, Rewritten, Zenon DEF x
  <1> QED
    BY <1>1, <1>2, <1>4, Opened

(* A write to the first file of the plan fails. *)
LEMMA BreaksOne ==
  ASSUME RunOK, WriteFails PROVE Numbered' /\ Progress' /\ ResultOfRun'
  <1> DEFINE x == files[Head(plan)]
  <1>1. /\ outcome = "running" /\ pending
        /\ files' = [files EXCEPT ![Head(plan)] = [x EXCEPT !.bad = TRUE]]
        /\ UNCHANGED <<plan, pending, outcome, runs>>
    BY DEF WriteFails, Writing
  <1>2. IsFile(x) /\ plan # <<>>
    BY <1>1, OpenIsNew
  <1> HIDE DEF x
  <1>3. [x EXCEPT !.bad = TRUE] =
          [magic |-> x.magic, bytes |-> x.bytes, content |-> x.content, run |-> x.run, bad |-> TRUE]
    BY <1>2, Spoilt, Zenon
  <1>4. OneFile(Head(plan))
    BY <1>1, <1>3, Rewritten, Zenon DEF x
  <1> QED
    BY <1>1, <1>2, <1>4, Opened

(* A writer closes the first file of the plan. *)
LEMMA ClosesOne ==
  ASSUME RunOK, Close PROVE Numbered' /\ Progress' /\ ResultOfRun'
  <1> DEFINE x == files[Head(plan)]
  <1>1. /\ outcome = "running" /\ pending /\ (x.bytes = All \/ x.bad)
        /\ files' = IF IsDic(Head(plan)) /\ ~x.bad
                    THEN [files EXCEPT ![Head(plan)] = [x EXCEPT !.magic = All]] ELSE files
        /\ plan' = Tail(plan) /\ pending' = FALSE /\ UNCHANGED <<outcome, runs>>
    BY DEF Close, Writing
  <1>2. IsFile(x) /\ plan # <<>> /\ Head(plan) \in Names /\ x.run = runs
    BY <1>1, OpenIsNew
  <1>3. ASSUME ~(IsDic(Head(plan)) /\ ~x.bad)
        PROVE  OneFile(Head(plan)) /\ CanEnd(files'[Head(plan)], Head(plan))
    <2>1. files' = files
      BY <1>1, <1>3
    <2>2. x # NoFile
      <3>1. runs > 0
        BY <1>1 DEF RunOK, Numbered
      <3> QED
        BY <1>2, <3>1 DEF NoFile
    <2>3. OneFile(Head(plan))
      BY <1>1, <1>2, <2>1, <2>2 DEF OneFile
    <2>4. CanEnd(x, Head(plan))
      BY <1>1, <1>3 DEF CanEnd
    <2> QED
      BY <2>1, <2>3, <2>4
  <1>4. ASSUME IsDic(Head(plan)) /\ ~x.bad
        PROVE  OneFile(Head(plan)) /\ CanEnd(files'[Head(plan)], Head(plan))
    <2>1. files' = [files EXCEPT ![Head(plan)] = [x EXCEPT !.magic = All]] /\ x.bytes = All
      BY <1>1, <1>4
    <2> HIDE DEF x
    <2>2. [x EXCEPT !.magic = All] =
            [magic |-> All, bytes |-> x.bytes, content |-> x.content, run |-> x.run, bad |-> x.bad]
      BY <1>2 DEF IsFile
    <2>3. files' = [files EXCEPT ![Head(plan)] = [magic |-> All, bytes |-> x.bytes,
                      content |-> files[Head(plan)].content, run |-> files[Head(plan)].run, bad |-> x.bad]]
      BY <2>1, <2>2, Zenon DEF x
    <2>4. OneFile(Head(plan)) /\ files'[Head(plan)].bytes = x.bytes /\ files'[Head(plan)].magic = All
      BY <1>1, <2>3, Rewritten, Zenon
    <2> QED
      BY <2>1, <2>4 DEF CanEnd
  <1>5. OneFile(Head(plan)) /\ CanEnd(files'[Head(plan)], Head(plan))
    BY <1>3, <1>4
  <1>6. Closes(Head(plan))
    BY <1>1, <1>2, <1>5, Zenon DEF Closes
  <1> QED
    BY <1>6, Finished

(* Every step keeps a run where its outcome will be true. *)
LEMMA RunStep ==
  ASSUME RunOK, [Next]_vars PROVE RunOK'
  <1> SUFFICES Numbered' /\ Progress' /\ ResultOfRun'
    BY FilesStep DEF RunOK
  <1>1. CASE Rest \/ Edit \/ ReadLines \/ BuildArray \/ InArray \/ UNCHANGED vars
    BY <1>1, Stayed DEF Rest, Edit, ReadLines, BuildArray, InArray, vars, RunState
  <1>2. CASE LineFails
    BY <1>2, Stopped, Zenon DEF LineFails, Fails, Going
  <1>3. CASE NoWord \/ GrowFails
    BY <1>3, Stopped, Zenon DEF NoWord, GrowFails, Going
  <1>4. CASE Crash
    <2>1. outcome = "running" /\ outcome' = "died" /\ UNCHANGED <<files, runs>>
      BY <1>4 DEF Crash
    <2> QED
      BY <2>1, Stopped
  <1>5. CASE Finish
    BY <1>5, Ended
  <1>6. CASE Run("system") \/ Run("user")
    BY <1>6, Begun
  <1>7. CASE CompileCharBin
    <2> DEFINE def == OrDefault(source.char_def, CharDefDefault)
               table == CompileChar(def, {UnkDef[i].word : i \in DOMAIN UnkDef})
    <2>1. /\ Going /\ UNCHANGED runs
          /\ IF table = Dead THEN Fails("char.def") /\ UNCHANGED files
             ELSE (Truncate(table.value) /\ UNCHANGED <<plan, job, outcome, why>>) \/ Denied
      BY <1>7 DEF CompileCharBin
    <2> HIDE DEF table
    <2> QED
      BY <2>1, Stopped, TruncatesOne DEF Fails, Denied, Going
  <1>8. CASE BeginDictionary
    <2>1. /\ Going /\ UNCHANGED <<files, runs>>
          /\ outcome' = "false" \/ UNCHANGED <<plan, pending, outcome>>
      BY <1>8, Zenon DEF BeginDictionary, Fails
    <2> QED
      BY <2>1, Stopped, Stayed DEF Going, RunState
  <1>9. CASE WriteDictionary
    <2>1. /\ Going /\ UNCHANGED runs
          /\ (Truncate(Binary) /\ UNCHANGED <<plan, outcome>>) \/ (outcome' = "false" /\ UNCHANGED files)
      BY <1>9, Zenon DEF WriteDictionary, Denied, Fails
    <2> QED
      BY <2>1, Stopped, TruncatesOne DEF Going
  <1>10. CASE CompileMatrixBin
    <2> DEFINE m == CompileMatrix(OrDefault(source.matrix_def, MatrixDefDefault))
    <2>1. /\ Going /\ UNCHANGED runs
          /\ IF m = Dead THEN Fails("matrix.def") /\ UNCHANGED files
             ELSE (Truncate(m.value) /\ UNCHANGED <<plan, job, outcome, why>>) \/ Denied
      BY <1>10, Zenon DEF CompileMatrixBin
    <2> HIDE DEF m
    <2> QED
      BY <2>1, Stopped, TruncatesOne, Zenon DEF Fails, Denied, Going
  <1>11. CASE Fill
    BY <1>11, FillsOne
  <1>12. CASE Close
    BY <1>12, ClosesOne
  <1>13. CASE WriteFails
    BY <1>13, BreaksOne
  <1> QED
    BY <1>1, <1>2, <1>3, <1>4, <1>5, <1>6, <1>7, <1>8, <1>9, <1>10, <1>11, <1>12, <1>13 DEF Next

(* Before the first run nothing is claimed. *)
LEMMA RunInit ==
  ASSUME Init PROVE RunOK
  <1>1. FilesOK
    <2>1. IsFile(NoFile)
      BY DEF IsFile, NoFile, All
    <2> QED
      BY <2>1, Zenon DEF Init, FilesOK
  <1>2. Numbered /\ Progress /\ ResultOfRun
    BY Zenon DEF Init, Numbered, Progress, ResultOfRun
  <1> QED
    BY <1>1, <1>2 DEF RunOK

(* TRUE means that this run opened and closed every file it had to, and     *)
(* that one is short only if a write to it failed; FALSE leaves the files   *)
(* in front of the failure new and those behind it old, however often the  *)
(* directory was built before and wherever that died or met a full disk    *)
(* (dictionary_compiler.cpp:102-150).                                      *)
THEOREM ResultsTold == Spec => []ResultOfRun
  <1>1. Init => RunOK
    BY RunInit
  <1>2. RunOK /\ [Next]_vars => RunOK'
    BY RunStep
  <1>3. RunOK => ResultOfRun
    BY DEF RunOK
  <1> QED
    BY <1>1, <1>2, <1>3, PTL DEF Spec
-----------------------------------------------------------------------------
(* The order of a dictionary, and what it holds when it is sorted.           *)

(* A strict order that tells every two members of a set apart. *)
Orders(R, S) ==
  /\ \A x \in S : <<x, x>> \notin R
  /\ \A x, y \in S : x # y => <<x, y>> \in R \/ <<y, x>> \in R
  /\ \A x, y, z \in S : <<x, y>> \in R /\ <<y, z>> \in R => <<x, z>> \in R
Under(R, S, x) == {y \in S : <<y, x>> \in R}

(* In a finite ordered set there is one member at every place. *)
LEMMA Places ==
  ASSUME NEW S, IsFiniteSet(S), NEW R, Orders(R, S)
  PROVE  /\ Cardinality(S) \in Nat
         /\ \A x \in S : Cardinality(Under(R, S, x)) \in 0 .. Cardinality(S) - 1
         /\ \A x, y \in S : Cardinality(Under(R, S, x)) = Cardinality(Under(R, S, y)) => x = y
         /\ \A i \in 1 .. Cardinality(S) : \E x \in S : Cardinality(Under(R, S, x)) = i - 1
  <1> DEFINE n == Cardinality(S)
             P == 0 .. n - 1
             place == [x \in S |-> Cardinality(Under(R, S, x))]
  <1>1. n \in Nat
    BY FS_CardinalityType
  <1>2. ASSUME NEW x \in S
        PROVE  IsFiniteSet(Under(R, S, x)) /\ Cardinality(Under(R, S, x)) \in P
    <2>1. Under(R, S, x) \subseteq S \ {x}
      BY DEF Under, Orders
    <2>2. IsFiniteSet(S \ {x}) /\ Cardinality(S \ {x}) = n - 1
      BY FS_RemoveElement
    <2>3. IsFiniteSet(Under(R, S, x)) /\ Cardinality(Under(R, S, x)) <= n - 1
      BY <2>1, <2>2, FS_Subset
    <2> HIDE DEF n
    <2> QED
      BY <1>1, <2>3, FS_CardinalityType
  <1>3. ASSUME NEW x \in S, NEW y \in S, <<x, y>> \in R PROVE place[x] < place[y]
    <2>1. Under(R, S, x) \subseteq Under(R, S, y)
      BY <1>3, Zenon DEF Under, Orders
    <2>2. x \in Under(R, S, y) /\ x \notin Under(R, S, x)
      BY <1>3 DEF Under, Orders
    <2>3. /\ Cardinality(Under(R, S, x)) <= Cardinality(Under(R, S, y))
          /\ Cardinality(Under(R, S, x)) = Cardinality(Under(R, S, y)) => Under(R, S, x) = Under(R, S, y)
      BY <1>2, <2>1, FS_Subset
    <2>4. Cardinality(Under(R, S, x)) # Cardinality(Under(R, S, y))
      BY <2>2, <2>3
    <2>5. Cardinality(Under(R, S, x)) \in Nat /\ Cardinality(Under(R, S, y)) \in Nat
      BY <1>2, FS_CardinalityType
    <2> QED
      BY <2>3, <2>4, <2>5
  <1>3a. ASSUME NEW x \in S, NEW y \in S, x # y PROVE place[x] # place[y]
    <2>1. place[x] \in P /\ place[y] \in P
      BY <1>2
    <2> HIDE DEF place
    <2>2. place[x] \in Int /\ place[y] \in Int
      BY <2>1
    <2>3. place[x] < place[y] \/ place[y] < place[x]
      BY <1>3, <1>3a, Zenon DEF Orders
    <2> QED
      BY <2>2, <2>3
  <1>4. place \in Injection(S, P)
    <2>1. place \in [S -> P]
      BY <1>2
    <2> HIDE DEF place, P
    <2> QED
      BY <1>3a, <2>1, Fun_IsInj
  <1>5. IsFiniteSet(P) /\ Cardinality(P) = n
    <2>1. 0 \in Int /\ n - 1 \in Int /\ (IF 0 > n - 1 THEN 0 ELSE (n - 1) - 0 + 1) = n
      BY <1>1
    <2> HIDE DEF n
    <2> QED
      BY <2>1, FS_Interval, Zenon
  <1>6. place \in Surjection(S, P)
    <2> HIDE DEF place, P
    <2> QED
      BY <1>4, <1>5, FS_Injection
  <1>7. ASSUME NEW i \in 1 .. n PROVE \E x \in S : place[x] = i - 1
    <2>1. i - 1 \in P
      BY <1>1
    <2> HIDE DEF place, P
    <2> QED
      BY <1>6, <2>1, Fun_SurjectionProperties DEF Surjection
  <1>8. \A x \in S : place[x] = Cardinality(Under(R, S, x))
    OBVIOUS
  <1>9. \A x, y \in S : place[x] = place[y] => x = y
    BY <1>3a
  <1> HIDE DEF place
  <1> QED
    BY <1>1, <1>2, <1>7, <1>8, <1>9

(* Every place has its element. *)
LEMMA PlacesTaken ==
  ASSUME NEW S, IsFiniteSet(S), NEW R, Orders(R, S), NEW i \in 1 .. Cardinality(S)
  PROVE  \E x \in S : Cardinality(Under(R, S, x)) = i - 1
  BY Places

(* Two words that agree in their first n bytes and part behind them. *)
Agree(v, w, n) == \A k \in 1 .. n : v[k] = w[k]
PartAt(v, w, n) ==
  /\ n <= Len(v) /\ n < Len(w) /\ Agree(v, w, n)
  /\ n < Len(v) => v[n + 1] < w[n + 1]

(* The order of the words in these terms. *)
LEMMA BelowParts ==
  ASSUME NEW v \in Seq(Nat), NEW w \in Seq(Nat)
  PROVE  Below(v, w) <=> \E n \in Nat : PartAt(v, w, n)
  <1>1. Len(v) \in Nat /\ Len(w) \in Nat /\ DOMAIN v = 1 .. Len(v) /\ DOMAIN w = 1 .. Len(w)
    OBVIOUS
  <1>2. ASSUME NEW n \in Nat, n <= Len(v), n <= Len(w)
        PROVE  (SubSeq(v, 1, n) = SubSeq(w, 1, n)) <=> Agree(v, w, n)
    <2>1. /\ SubSeq(v, 1, n) \in Seq(Nat) /\ Len(SubSeq(v, 1, n)) = n
          /\ \A k \in 1 .. n : SubSeq(v, 1, n)[k] = v[k]
      BY <1>1, <1>2
    <2>2. /\ SubSeq(w, 1, n) \in Seq(Nat) /\ Len(SubSeq(w, 1, n)) = n
          /\ \A k \in 1 .. n : SubSeq(w, 1, n)[k] = w[k]
      BY <1>1, <1>2
    <2> DEFINE a == SubSeq(v, 1, n)
               b == SubSeq(w, 1, n)
    <2> HIDE DEF a, b
    <2>3. a = b <=> \A k \in 1 .. n : a[k] = b[k]
      <3>1. a \in Seq(Nat) /\ b \in Seq(Nat) /\ Len(a) = n /\ Len(b) = n
        BY <2>1, <2>2 DEF a, b
      <3>2. a = [k \in 1 .. n |-> a[k]] /\ b = [k \in 1 .. n |-> b[k]]
        BY <3>1
      <3> QED
        BY <3>2
    <2> QED
      BY <2>1, <2>2, <2>3 DEF Agree, a, b
  <1>3. ASSUME Below(v, w) PROVE \E n \in Nat : PartAt(v, w, n)
    <2>1. CASE Len(v) < Len(w) /\ SubSeq(w, 1, Len(v)) = v
      <3>1. SubSeq(v, 1, Len(v)) = v
        BY <1>1
      <3>2. Agree(v, w, Len(v))
        BY <1>1, <1>2, <2>1, <3>1
      <3> QED
        BY <1>1, <2>1, <3>2 DEF PartAt
    <2>2. ASSUME NEW i \in DOMAIN v \cap DOMAIN w, v[i] < w[i], SubSeq(v, 1, i - 1) = SubSeq(w, 1, i - 1)
          PROVE  \E n \in Nat : PartAt(v, w, n)
      <3>1. i - 1 \in Nat /\ i - 1 < Len(v) /\ i - 1 < Len(w) /\ (i - 1) + 1 = i
        BY <1>1
      <3> DEFINE n == i - 1
      <3> HIDE DEF n
      <3>2. n \in Nat /\ n <= Len(v) /\ n <= Len(w) /\ n < Len(w) /\ n + 1 = i
        BY <1>1, <3>1 DEF n
      <3>3. SubSeq(v, 1, n) = SubSeq(w, 1, n)
        BY <2>2 DEF n
      <3>4. Agree(v, w, n)
        BY <1>2, <3>2, <3>3
      <3>5. n < Len(v) => v[n + 1] < w[n + 1]
        BY <2>2, <3>2
      <3>6. PartAt(v, w, n)
        BY <3>2, <3>4, <3>5 DEF PartAt
      <3> QED
        BY <3>2, <3>6
    <2> QED
      BY <1>3, <2>1, <2>2, Zenon DEF Below
  <1>4. ASSUME NEW n \in Nat, PartAt(v, w, n) PROVE Below(v, w)
    <2>0. n <= Len(v) /\ n < Len(w) /\ Agree(v, w, n) /\ (n < Len(v) => v[n + 1] < w[n + 1])
      BY <1>4 DEF PartAt
    <2>a. n <= Len(w)
      BY <1>1, <2>0
    <2>1. n <= Len(v) /\ n < Len(w) /\ SubSeq(v, 1, n) = SubSeq(w, 1, n)
      BY <1>2, <2>0, <2>a
    <2>2. CASE n = Len(v)
      <3>1. SubSeq(v, 1, n) = v
        BY <1>1, <2>2
      <3> QED
        BY <2>1, <2>2, <3>1 DEF Below
    <2>3. CASE n # Len(v)
      <3>0. n < Len(v) /\ n < Len(w)
        <4>1. Len(v) \in Nat /\ Len(w) \in Nat /\ n \in Nat
          BY <1>1
        <4>2. n <= Len(v) /\ n < Len(w)
          BY <2>0
        <4> QED
          BY <4>1, <4>2, <2>3
      <3>1. n + 1 \in DOMAIN v \cap DOMAIN w /\ (n + 1) - 1 = n /\ v[n + 1] < w[n + 1]
        BY <1>1, <2>0, <3>0
      <3> QED
        BY <2>1, <3>1, Zenon DEF Below
    <2> QED
      BY <2>2, <2>3
  <1> QED
    BY <1>3, <1>4

(* Of two different words one is below the other. *)
LEMMA WordsDiffer ==
  ASSUME NEW v \in Seq(Nat), NEW w \in Seq(Nat), v # w
  PROVE  Below(v, w) \/ Below(w, v)
  <1> DEFINE D == {n \in Nat : /\ n <= Len(v) /\ n <= Len(w)
                               /\ n = Len(v) \/ n = Len(w) \/ v[n + 1] # w[n + 1]}
  <1>1. Len(v) \in Nat /\ Len(w) \in Nat
        /\ (\A k \in 1 .. Len(v) : v[k] \in Nat) /\ (\A k \in 1 .. Len(w) : w[k] \in Nat)
    OBVIOUS
  <1>2. D # {}
    <2>1. Len(v) <= Len(w) => Len(v) \in D
      BY <1>1
    <2>2. Len(w) <= Len(v) => Len(w) \in D
      BY <1>1
    <2> QED
      BY <1>1, <2>1, <2>2
  <1>3. PICK n \in D : \A k \in D : n <= k
    <2> HIDE DEF D
    <2>1. D \subseteq Nat
      BY DEF D
    <2> QED
      BY <1>2, <2>1, Smallest, Zenon
  <1>4. n \in Nat /\ n <= Len(v) /\ n <= Len(w) /\ (n = Len(v) \/ n = Len(w) \/ v[n + 1] # w[n + 1])
    OBVIOUS
  <1>5. Agree(v, w, n) /\ Agree(w, v, n)
    <2>1. ASSUME NEW k \in 1 .. n, v[k] # w[k] PROVE FALSE
      <3>1. k - 1 \in Nat /\ k - 1 <= Len(v) /\ k - 1 <= Len(w) /\ (k - 1) + 1 = k /\ k - 1 < n
        BY <1>1, <1>4
      <3>2. k - 1 \in D
        BY <2>1, <3>1
      <3>3. n <= k - 1 /\ n \in Nat
        BY <1>3, <1>4, <3>2, Zenon
      <3> QED
        BY <3>1, <3>3
    <2> QED
      BY <2>1 DEF Agree
  <1> HIDE DEF D
  <1>6. CASE n < Len(v) /\ n < Len(w)
    <2>1. n + 1 \in 1 .. Len(v) /\ n + 1 \in 1 .. Len(w) /\ v[n + 1] # w[n + 1]
      BY <1>1, <1>4, <1>6
    <2>2. v[n + 1] < w[n + 1] \/ w[n + 1] < v[n + 1]
      BY <1>1, <2>1
    <2>3. PartAt(v, w, n) \/ PartAt(w, v, n)
      BY <1>4, <1>5, <1>6, <2>2 DEF PartAt
    <2> QED
      BY <1>4, <2>3, BelowParts
  <1>7. CASE n = Len(v) /\ n < Len(w)
    <2>1. PartAt(v, w, n)
      BY <1>1, <1>5, <1>7 DEF PartAt
    <2> QED
      BY <1>4, <2>1, BelowParts
  <1>8. CASE n = Len(w) /\ n < Len(v)
    <2>1. PartAt(w, v, n)
      BY <1>1, <1>5, <1>8 DEF PartAt
    <2> QED
      BY <1>4, <2>1, BelowParts
  <1>9. CASE n = Len(v) /\ n = Len(w)
    <2>1. v = [k \in 1 .. Len(v) |-> v[k]] /\ w = [k \in 1 .. Len(w) |-> w[k]]
      OBVIOUS
    <2>2. v = [k \in 1 .. n |-> v[k]] /\ w = [k \in 1 .. n |-> w[k]]
      BY <1>9, <2>1
    <2> QED
      BY <1>5, <2>2 DEF Agree
  <1> QED
    BY <1>1, <1>4, <1>6, <1>7, <1>8, <1>9

(* No word is below itself, and below is transitive. *)
LEMMA BelowStrict ==
  ASSUME NEW u \in Seq(Nat), NEW v \in Seq(Nat), NEW w \in Seq(Nat)
  PROVE  ~Below(v, v) /\ (Below(u, v) /\ Below(v, w) => Below(u, w))
  <1>1. /\ Len(u) \in Nat /\ Len(v) \in Nat /\ Len(w) \in Nat
        /\ (\A k \in 1 .. Len(u) : u[k] \in Nat)
        /\ (\A k \in 1 .. Len(v) : v[k] \in Nat) /\ (\A k \in 1 .. Len(w) : w[k] \in Nat)
    OBVIOUS
  <1>2. ASSUME NEW n \in Nat, PartAt(v, v, n) PROVE FALSE
    <2>a. n < Len(v) /\ v[n + 1] < v[n + 1]
      BY <1>2 DEF PartAt
    <2>1. n + 1 \in 1 .. Len(v)
      BY <1>1, <2>a
    <2>2. PICK b \in Nat : b = v[n + 1]
      BY <1>1, <2>1
    <2>3. b < b
      BY <2>a, <2>2
    <2> QED
      BY <2>2, <2>3
  <1>3. ASSUME NEW m \in Nat, NEW n \in Nat, PartAt(u, v, m), PartAt(v, w, n)
        PROVE  \E k \in Nat : PartAt(u, w, k)
    <2>1. /\ m <= Len(u) /\ m < Len(v) /\ n <= Len(v) /\ n < Len(w)
          /\ Agree(u, v, m) /\ Agree(v, w, n)
          /\ (m < Len(u) => u[m + 1] < v[m + 1]) /\ (n < Len(v) => v[n + 1] < w[n + 1])
      BY <1>3 DEF PartAt
    <2>2. CASE m < n
      <3>1. Agree(u, w, m) /\ v[m + 1] = w[m + 1] /\ m < Len(w)
        BY <2>1, <2>2 DEF Agree
      <3> QED
        BY <2>1, <3>1 DEF PartAt
    <2>3. CASE n < m
      <3>1. Agree(u, w, n)
        BY <2>1, <2>3 DEF Agree
      <3>2. n <= Len(u) /\ n < Len(v)
        BY <1>1, <2>1, <2>3
      <3>3. n + 1 \in 1 .. m
        BY <2>3
      <3>4. u[n + 1] = v[n + 1]
        BY <2>1, <3>3 DEF Agree
      <3> QED
        BY <2>1, <3>1, <3>2, <3>4 DEF PartAt
    <2>4. CASE m = n
      <3>1. Agree(u, w, m)
        BY <2>1, <2>4 DEF Agree
      <3>2. v[m + 1] < w[m + 1] /\ m + 1 \in 1 .. Len(v) /\ m + 1 \in 1 .. Len(w) /\ (m < Len(u) => m + 1 \in 1 .. Len(u))
        BY <1>1, <2>1, <2>4
      <3>3. v[m + 1] \in Nat /\ w[m + 1] \in Nat /\ (m < Len(u) => u[m + 1] \in Nat)
        BY <1>1, <3>2
      <3>4. m < Len(u) => u[m + 1] < w[m + 1]
        BY <2>1, <3>2, <3>3
      <3> QED
        BY <2>1, <2>4, <3>1, <3>4 DEF PartAt
    <2> QED
      BY <2>2, <2>3, <2>4
  <1> QED
    BY <1>2, <1>3, BelowParts

LEMMA BytesAre == Bytes \subseteq Nat /\ Seq(Bytes) \subseteq Seq(Nat)
  <1>1. Bytes \subseteq Nat
    BY ArrayConstants DEF Bytes
  <1>2. ASSUME NEW S, NEW T, S \subseteq T PROVE Seq(S) \subseteq Seq(T)
    BY <1>2
  <1> QED
    BY <1>1, <1>2, Zenon

(* Entries of a dictionary with ids that a matrix of these sizes has. *)
AreEntries(dic, lsize, rsize) ==
  \E S : /\ dic \in Seq(S)
         /\ \A e \in S : /\ e.word \in Seq(Bytes)
                         /\ e.token.lc \in 0 .. rsize - 1 /\ e.token.rc \in 0 .. lsize - 1

(* What is sorted are the entries, all of them. *)
LEMMA SortedFrom ==
  ASSUME NEW dic, NEW lsize, NEW rsize, AreEntries(dic, lsize, rsize)
  PROVE  /\ \A i \in DOMAIN SortedDic(dic) : \E k \in DOMAIN dic : SortedDic(dic)[i] = dic[k]
         /\ \A k \in DOMAIN dic : \E i \in DOMAIN SortedDic(dic) : SortedDic(dic)[i] = dic[k]
         /\ \E n \in Nat : DOMAIN SortedDic(dic) = 1 .. n
  <1> DEFINE D == DOMAIN dic
             Before(i, k) == Below(dic[i].word, dic[k].word) \/ (dic[i].word = dic[k].word /\ i < k)
             R == {p \in D \X D : Before(p[1], p[2])}
             Place(i) == CHOOSE x \in D : Cardinality({y \in D : Before(y, x)}) = i - 1
             order == [i \in 1 .. Cardinality(D) |-> Place(i)]
  <1>1. D = 1 .. Len(dic) /\ Len(dic) \in Nat /\ \A i \in D : dic[i].word \in Seq(Bytes)
    <2>1. PICK S : dic \in Seq(S) /\ \A e \in S : e.word \in Seq(Bytes)
      BY DEF AreEntries
    <2> QED
      BY <2>1
  <1>2. IsFiniteSet(D)
    <2>1. 1 \in Int /\ Len(dic) \in Int
      BY <1>1
    <2> QED
      BY <1>1, <2>1, FS_Interval
  <1>3. Orders(R, D)
    <2>1. \A x, y \in D : <<x, y>> \in R <=> Before(x, y)
      <3> HIDE DEF Before, D
      <3> QED
        OBVIOUS
    <2>2. \A x \in D : ~Before(x, x)
      BY <1>1, BelowStrict, BytesAre
    <2>3. \A x, y \in D : x # y => Before(x, y) \/ Before(y, x)
      <3> SUFFICES ASSUME NEW x \in D, NEW y \in D, x # y PROVE Before(x, y) \/ Before(y, x)
        OBVIOUS
      <3>1. x \in Nat /\ y \in Nat /\ dic[x].word \in Seq(Bytes) /\ dic[y].word \in Seq(Bytes)
        BY <1>1
      <3>2. CASE dic[x].word = dic[y].word
        BY <3>1, <3>2
      <3>3. CASE dic[x].word # dic[y].word
        BY <3>1, <3>3, WordsDiffer, BytesAre
      <3> QED
        BY <3>2, <3>3
    <2>4. ASSUME NEW x \in D, NEW y \in D, NEW z \in D, Before(x, y), Before(y, z) PROVE Before(x, z)
      <3>1. /\ x \in Nat /\ y \in Nat /\ z \in Nat
            /\ dic[x].word \in Seq(Bytes) /\ dic[y].word \in Seq(Bytes) /\ dic[z].word \in Seq(Bytes)
        BY <1>1
      <3>2. Below(dic[x].word, dic[y].word) /\ Below(dic[y].word, dic[z].word)
              => Below(dic[x].word, dic[z].word)
        BY <3>1, BelowStrict, BytesAre
      <3> QED
        BY <2>4, <3>1, <3>2
    <2> HIDE DEF Before, R, D
    <2> QED
      BY <2>1, <2>2, <2>3, <2>4 DEF Orders
  <1>4. /\ Cardinality(D) \in Nat
        /\ \A i \in 1 .. Cardinality(D) : Place(i) \in D
        /\ \A k \in D : \E i \in 1 .. Cardinality(D) : Place(i) = k
    <2> DEFINE card == [x \in D |-> Cardinality({y \in D : Before(y, x)})]
    <2>1. \A x \in D : card[x] = Cardinality(Under(R, D, x))
      <3>1. \A x \in D : Under(R, D, x) = {y \in D : Before(y, x)}
        <4> HIDE DEF Before
        <4> QED
          BY DEF Under
      <3> HIDE DEF Before, R, D
      <3> QED
        BY <3>1
    <2>2. \A i \in 1 .. Cardinality(D) :
            (\E x \in D : card[x] = i - 1) => Place(i) \in D /\ card[Place(i)] = i - 1
      <3> HIDE DEF Before, D
      <3> QED
        OBVIOUS
    <2> HIDE DEF Before, R, D, card, Place
    <2>3. /\ Cardinality(D) \in Nat
          /\ \A x \in D : card[x] \in 0 .. Cardinality(D) - 1
          /\ \A x, y \in D : card[x] = card[y] => x = y
          /\ \A i \in 1 .. Cardinality(D) : \E x \in D : card[x] = i - 1
      BY <1>2, <1>3, <2>1, Places
    <2>4. \A i \in 1 .. Cardinality(D) : Place(i) \in D /\ card[Place(i)] = i - 1
      BY <2>2, <2>3
    <2>5. ASSUME NEW k \in D PROVE \E i \in 1 .. Cardinality(D) : Place(i) = k
      <3> DEFINE i == card[k] + 1
      <3>1. i \in 1 .. Cardinality(D) /\ i - 1 = card[k]
        BY <2>3
      <3> HIDE DEF i
      <3> QED
        BY <2>3, <2>4, <3>1
    <2> QED
      BY <2>3, <2>4, <2>5
  <1>5. SortedDic(dic) = [i \in DOMAIN order |-> dic[order[i]]]
    BY DEF SortedDic, InOrder
  <1> HIDE DEF Place, D
  <1>6. /\ DOMAIN order = 1 .. Cardinality(D)
        /\ \A i \in DOMAIN order : order[i] \in D
        /\ \A k \in D : \E i \in DOMAIN order : order[i] = k
    BY <1>4
  <1> HIDE DEF order
  <1>7. \A k \in D : \E i \in DOMAIN SortedDic(dic) : SortedDic(dic)[i] = dic[k]
    BY <1>5, <1>6
  <1> QED
    BY <1>4, <1>5, <1>6, <1>7 DEF D

(* The beginning of a text is a text. *)
LEMMA BeginningText ==
  ASSUME NEW file, IsText(file), NEW n \in Nat, n <= Len(file)
  PROVE  IsText(SubSeq(file, 1, n))
  <1> DEFINE t == SubSeq(file, 1, n)
  <1>1. file \in Seq(Range(file)) /\ \A i \in 1 .. Len(file) : file[i].word \in Seq(Bytes)
    BY DEF IsText
  <1>2. t \in Seq(Range(file)) /\ Len(t) = n /\ \A i \in 1 .. n : t[i] = file[i]
    <2> HIDE DEF t
    <2>1. ASSUME NEW S, NEW s \in Seq(S), n <= Len(s)
          PROVE  SubSeq(s, 1, n) \in Seq(S) /\ Len(SubSeq(s, 1, n)) = n
                 /\ \A i \in 1 .. n : SubSeq(s, 1, n)[i] = s[i]
      BY <2>1
    <2> QED
      BY <1>1, <2>1 DEF t
  <1> HIDE DEF t
  <1>3. t = [i \in 1 .. n |-> t[i]] /\ DOMAIN t = 1 .. n
    BY <1>2
  <1>4. t \in Seq(Range(t))
    <2>1. \A i \in 1 .. n : t[i] \in Range(t)
      BY <1>3 DEF Range
    <2> QED
      BY <1>3, <2>1
  <1>5. \A i \in DOMAIN t : t[i].word \in Seq(Bytes)
    BY <1>1, <1>2, <1>3
  <1> QED
    BY <1>4, <1>5 DEF IsText, t

LEMMA UnreadText ==
  ASSUME NEW file, IsText(file) PROVE IsText(Unread(file))
  <1> DEFINE long == {i \in DOMAIN file : file[i].kind = "long"}
             least == CHOOSE i \in long : \A k \in long : i <= k
  <1>1. Unread(file) = IF long = {} THEN file ELSE SubSeq(file, 1, least - 1)
    BY DEF Unread
  <1>2. CASE long # {}
    <2>1. DOMAIN file = 1 .. Len(file) /\ Len(file) \in Nat
      BY DEF IsText
    <2>2. \E i \in long : \A k \in long : i <= k
      <3>1. long \subseteq Nat
        BY <2>1
      <3> HIDE DEF long
      <3> QED
        BY <1>2, <3>1, Smallest, Zenon
    <2>3. least \in long
      <3> HIDE DEF long
      <3> QED
        BY <2>2
    <2>4. least - 1 \in Nat /\ least - 1 <= Len(file)
      <3> HIDE DEF least
      <3> QED
        BY <2>1, <2>3
    <2> HIDE DEF least, long
    <2> QED
      BY <1>1, <1>2, <2>4, BeginningText
  <1> QED
    BY <1>1, <1>2

(* Sequences one behind the other. *)
LEMMA Flat ==
  ASSUME NEW X, NEW ss \in Seq(Seq(X)) PROVE FlattenSeq(ss) \in Seq(X)
  <1> DEFINE n == Len(ss)
             Body(t, m) == [i \in 1 .. m |-> IF i = 1 THEN ss[i] ELSE t[i - 1] \o ss[i]]
             Ms == {m \in 0 .. n : ~\E h : h = Body(h, m) /\ \A i \in 1 .. m : h[i] \in Seq(X)}
  <1>1. n \in Nat /\ \A i \in 1 .. n : ss[i] \in Seq(X)
    OBVIOUS
  <1> HIDE DEF n
  <1>2. Ms = {}
    <2> SUFFICES ASSUME Ms # {} PROVE FALSE
      BY Zenon
    <2>1. PICK m \in Ms : \A k \in Ms : m <= k
      <3>1. Ms \subseteq Nat
        <4> HIDE DEF Body
        <4> QED
          BY <1>1
      <3> HIDE DEF Ms
      <3> QED
        BY <3>1, Smallest, Zenon
    <2>2. m \in 0 .. n /\ m \in Nat
      BY <1>1
    <2>3. CASE m = 0
      <3>1. Body(<<>>, 0) = <<>>
        OBVIOUS
      <3>2. <<>> = Body(<<>>, m) /\ \A i \in 1 .. m : <<>>[i] \in Seq(X)
        BY <2>3, <3>1
      <3> HIDE DEF Body
      <3> QED
        BY <2>1, <3>2
    <2>4. CASE m # 0
      <3>1. m - 1 \in 0 .. n /\ ~(m <= m - 1) /\ m \in 1 .. n
        BY <1>1, <2>2, <2>4
      <3>2. m - 1 \notin Ms
        <4> HIDE DEF Ms
        <4> QED
          BY <2>1, <3>1
      <3>3. PICK h : h = Body(h, m - 1) /\ \A i \in 1 .. m - 1 : h[i] \in Seq(X)
        <4> HIDE DEF Body
        <4> QED
          BY <3>1, <3>2
      <3> DEFINE next == IF m = 1 THEN ss[1] ELSE h[m - 1] \o ss[m]
                 g == [i \in 1 .. m |-> IF i = m THEN next ELSE h[i]]
      <3>4. next \in Seq(X)
        <4>1. CASE m = 1
          BY <1>1, <3>1, <4>1
        <4>2. CASE m # 1
          <5>1. m - 1 \in 1 .. m - 1
            BY <2>2, <2>4, <4>2
          <5>2. h[m - 1] \in Seq(X) /\ ss[m] \in Seq(X)
            BY <1>1, <3>1, <3>3, <5>1
          <5> QED
            BY <4>2, <5>2
        <4> QED
          BY <4>1, <4>2
      <3>5. \A i \in 1 .. m - 1 : h[i] = (IF i = 1 THEN ss[i] ELSE h[i - 1] \o ss[i]) /\ h[i] \in Seq(X)
        <4>1. \A i \in 1 .. m - 1 : h[i] = Body(h, m - 1)[i]
          <5> HIDE DEF Body
          <5> QED
            BY <3>3
        <4> QED
          BY <3>3, <4>1, Zenon
      <3>6. ASSUME NEW i \in 1 .. m
            PROVE  g[i] = (IF i = 1 THEN ss[i] ELSE g[i - 1] \o ss[i]) /\ g[i] \in Seq(X)
        <4>1. CASE i = m
          <5>1. g[i] = next
            BY <4>1
          <5>2. m # 1 => g[m - 1] = h[m - 1]
            BY <2>2, <2>4
          <5> HIDE DEF g
          <5> QED
            BY <3>4, <4>1, <5>1, <5>2
        <4>2. CASE i # m
          <5>1. i \in 1 .. m - 1 /\ g[i] = h[i] /\ (i # 1 => g[i - 1] = h[i - 1])
            BY <2>2, <3>1, <4>2
          <5> HIDE DEF g
          <5> QED
            BY <3>5, <5>1
        <4> QED
          BY <4>1, <4>2
      <3>7. g = Body(g, m) /\ \A i \in 1 .. m : g[i] \in Seq(X)
        <4>1. g = [i \in 1 .. m |-> g[i]]
          OBVIOUS
        <4> HIDE DEF g
        <4> QED
          BY <3>6, <4>1, Zenon
      <3> HIDE DEF Body, g
      <3> QED
        BY <2>1, <3>7
    <2> QED
      BY <2>3, <2>4
  <1>3. CASE n = 0
    <2>1. ss = <<>>
      BY <1>3 DEF n
    <2> QED
      BY <1>3, <2>1 DEF FlattenSeq, n
  <1>4. CASE n # 0
    <2> DEFINE f == CHOOSE t : t = Body(t, n)
    <2>1. FlattenSeq(ss) = f[n]
      BY <1>4 DEF FlattenSeq, n
    <2>2. \E h : h = Body(h, n) /\ \A i \in 1 .. n : h[i] \in Seq(X)
      <3>1. n \notin Ms /\ n \in 0 .. n
        <4> HIDE DEF Ms
        <4> QED
          BY <1>1, <1>2
      <3> HIDE DEF Body
      <3> QED
        BY <3>1
    <2>3. f = Body(f, n)
      <3> HIDE DEF Body
      <3> QED
        BY <2>2, Zenon
    <2> HIDE DEF f
    <2>4. \A i \in 1 .. n : f[i] = IF i = 1 THEN ss[i] ELSE f[i - 1] \o ss[i]
      <3>1. \A i \in 1 .. n : f[i] = Body(f, n)[i]
        <4> HIDE DEF Body
        <4> QED
          BY <2>3
      <3> QED
        BY <3>1
    <2> DEFINE Bad == {i \in 1 .. n : f[i] \notin Seq(X)}
    <2>5. Bad = {}
      <3> SUFFICES ASSUME Bad # {} PROVE FALSE
        OBVIOUS
      <3>1. PICK i \in Bad : \A k \in Bad : i <= k
        <4>1. Bad \subseteq Nat
          BY <1>1
        <4> HIDE DEF Bad
        <4> QED
          BY <4>1, Smallest, Zenon
      <3>2. i \in 1 .. n /\ f[i] \notin Seq(X) /\ ss[i] \in Seq(X)
        BY <1>1
      <3>3. i # 1 => i - 1 \in 1 .. n /\ ~(i <= i - 1)
        BY <1>1, <3>2
      <3>4. i # 1 => i - 1 \notin Bad
        <4> HIDE DEF Bad
        <4> QED
          BY <3>1, <3>3
      <3>5. i # 1 => f[i - 1] \in Seq(X)
        BY <3>3, <3>4
      <3> HIDE DEF Bad
      <3>6. f[i] = IF i = 1 THEN ss[i] ELSE f[i - 1] \o ss[i]
        BY <2>4, <3>2
      <3> QED
        BY <3>2, <3>5, <3>6
    <2>6. n \in 1 .. n
      BY <1>1, <1>4
    <2> QED
      BY <2>1, <2>5, <2>6
  <1> QED
    BY <1>3, <1>4

(* Lines with words. *)
AreLines(ls) == \E S : ls \in Seq(S) /\ \A l \in S : l.word \in Seq(Bytes)

LEMMA LinesOfTexts ==
  ASSUME NEW fs, fs \in Seq(Range(fs)), \A i \in DOMAIN fs : IsText(fs[i])
  PROVE  AreLines(LinesOf(fs))
  <1> DEFINE t == [i \in DOMAIN fs |-> Unread(fs[i])]
             X == UNION {Range(t[i]) : i \in DOMAIN fs}
  <1>1. DOMAIN fs = 1 .. Len(fs) /\ Len(fs) \in Nat
    OBVIOUS
  <1>2. ASSUME NEW i \in DOMAIN fs
        PROVE  t[i] \in Seq(X) /\ \A l \in Range(t[i]) : l.word \in Seq(Bytes)
    <2>1. IsText(t[i])
      BY UnreadText
    <2>2. t[i] \in Seq(Range(t[i])) /\ \A k \in DOMAIN t[i] : t[i][k].word \in Seq(Bytes)
      BY <2>1 DEF IsText
    <2>3. Range(t[i]) \subseteq X
      OBVIOUS
    <2>4. ASSUME NEW s, NEW S, NEW T, s \in Seq(S), S \subseteq T PROVE s \in Seq(T)
      BY <2>4
    <2> HIDE DEF t, X
    <2>5. t[i] \in Seq(X)
      BY <2>2, <2>3, <2>4
    <2>6. \A l \in Range(t[i]) : l.word \in Seq(Bytes)
      BY <2>2, Zenon DEF Range
    <2> QED
      BY <2>5, <2>6
  <1>3. t \in Seq(Seq(X))
    <2> DEFINE Y == Seq(X)
    <2>1. t = [i \in 1 .. Len(fs) |-> t[i]] /\ \A i \in 1 .. Len(fs) : t[i] \in Y
      BY <1>1, <1>2
    <2> HIDE DEF t, X, Y
    <2>2. t \in Seq(Y)
      BY <1>1, <2>1
    <2> QED
      BY <2>2 DEF Y
  <1>4. LinesOf(fs) = FlattenSeq(t)
    BY DEF LinesOf
  <1>5. \A l \in X : l.word \in Seq(Bytes)
    <2> HIDE DEF t
    <2> QED
      BY <1>2, Zenon
  <1> HIDE DEF t, X
  <1> QED
    BY <1>3, <1>4, <1>5, Flat DEF AreLines

(* Where the features of the entries are. *)
AreNoted(dic, features, wakati) ==
  \A i \in DOMAIN dic :
    IF wakati THEN dic[i].token.at = 0
    ELSE dic[i].token.at + 1 \in DOMAIN features /\ features[dic[i].token.at + 1] = dic[i].feature
FeaturesKept(j) == (\E S : j.features \in Seq(S)) /\ AreNoted(j.dic, j.features, j.wakati)

(* A compilation under way: its entries fit the sizes it was begun with.    *)
WorkFields == {"lsize", "rsize", "files", "dic", "features", "wakati", "failed", "built"}
IsJob(j) ==
  /\ WorkFields \subseteq DOMAIN j
  /\ j.lsize \in Nat /\ j.rsize \in Nat
  /\ AreLines(j.files) /\ AreEntries(j.dic, j.lsize, j.rsize) /\ FeaturesKept(j)
SameWork(j, k) ==
  /\ DOMAIN k = DOMAIN j
  /\ k.lsize = j.lsize /\ k.rsize = j.rsize /\ k.files = j.files /\ k.dic = j.dic
  /\ k.features = j.features /\ k.wakati = j.wakati /\ k.built = j.built

LEMMA SameJob ==
  ASSUME NEW j, IsJob(j), NEW k, SameWork(j, k) PROVE IsJob(k)
  BY DEF IsJob, SameWork, FeaturesKept

(* Noting a failure or a file that was opened. *)
LEMMA Noted ==
  ASSUME NEW j, WorkFields \subseteq DOMAIN j, NEW x, NEW y
  PROVE  /\ SameWork(j, Fail(j, x))
         /\ SameWork(j, [j EXCEPT !.rewrite = x, !.fi = y])
         /\ SameWork(j, [j EXCEPT !.rewrite = x, !.cid = y])
  <1>1. {"lsize", "rsize", "files", "dic", "features", "wakati", "failed", "built"} \subseteq DOMAIN j
    BY DEF WorkFields
  <1>2. SameWork(j, Fail(j, x))
    BY <1>1 DEF SameWork, Fail
  <1>3. SameWork(j, [j EXCEPT !.rewrite = x, !.fi = y])
    BY <1>1 DEF SameWork
  <1>4. SameWork(j, [j EXCEPT !.rewrite = x, !.cid = y])
    BY <1>1 DEF SameWork
  <1> QED
    BY <1>2, <1>3, <1>4

LEMMA SameWorkTwice ==
  ASSUME NEW j, NEW k, NEW n, SameWork(j, k), SameWork(k, n) PROVE SameWork(j, n)
  BY DEF SameWork
LEMMA SameWorkSelf == \A j : SameWork(j, j)
  BY DEF SameWork

(* The cost of a line. *)
LEMMA CostNoted ==
  ASSUME NEW j, WorkFields \subseteq DOMAIN j, NEW line, NEW char
  PROVE  SameWork(j, AfterCost(j, line, char))
  <1> DEFINE k == OpenForCost(j, char)
  <1>1. SameWork(j, k)
    <2> DEFINE rewrite == OpenRewriter(SourceFile(j.type, "rewrite_def"))
               fi == OpenFeatureIndex(SourceFile(j.type, "model"), source.charset,
                                      SourceFile(j.type, "feature_def"), SourceFile(j.type, "rewrite_def"))
    <2>1. k \in {j, Fail(j, "cost field should not be empty"), Fail(j, "cannot open feature index"),
                 [j EXCEPT !.rewrite = rewrite, !.fi = fi]}
      <3>1. k = IF j.type # "user" THEN Fail(j, "cost field should not be empty")
                ELSE IF j.rewrite # Unopened THEN j
                ELSE IF rewrite = Dead \/ fi = Dead \/ char = Missing THEN Fail(j, "cannot open feature index")
                ELSE [j EXCEPT !.rewrite = rewrite, !.fi = fi]
        BY DEF OpenForCost
      <3> HIDE DEF k, rewrite, fi
      <3> QED
        BY <3>1, Zenon
    <2> HIDE DEF k, rewrite, fi
    <2>2. SameWork(j, [j EXCEPT !.rewrite = rewrite, !.fi = fi])
      BY Noted, Zenon
    <2>3. /\ SameWork(j, Fail(j, "cost field should not be empty"))
          /\ SameWork(j, Fail(j, "cannot open feature index")) /\ SameWork(j, j)
      BY Noted, SameWorkSelf, Zenon
    <2> QED
      BY <2>1, <2>2, <2>3, Zenon
  <1> DEFINE n == AfterCost(j, line, char)
  <1>2. n \in {k, Fail(k, "CHECK_DIE(fi)"), Fail(k, "rewrite failed")}
    <2>1. n = IF line.cost # IntMax \/ k.failed # "" THEN k
              ELSE IF k.fi = Unopened THEN Fail(k, "CHECK_DIE(fi)")
              ELSE IF RewriteFeature(k.rewrite.value, line.feature) = Dead THEN Fail(k, "rewrite failed")
              ELSE k
      BY DEF AfterCost
    <2> HIDE DEF k, n
    <2> QED
      BY <2>1, Zenon
  <1> HIDE DEF k, n
  <1>3. WorkFields \subseteq DOMAIN k
    BY <1>1 DEF SameWork
  <1>4. SameWork(k, n)
    BY <1>2, <1>3, Noted, SameWorkSelf, Zenon
  <1> QED
    BY <1>1, <1>4, SameWorkTwice DEF n

(* The ids of a line. *)
LEMMA IdsNoted ==
  ASSUME NEW j, WorkFields \subseteq DOMAIN j, NEW line
  PROVE  SameWork(j, AfterIds(j, line))
  <1> DEFINE k == OpenForIds(j)
             n == AfterIds(j, line)
  <1>1. SameWork(j, k)
    <2> DEFINE rewrite == IF j.rewrite = Unopened
                          THEN OpenRewriter(SourceFile(j.type, "rewrite_def")) ELSE j.rewrite
               cid == IF j.cid = Unopened
                      THEN OpenContextId(SourceFile(j.type, "left_id"), SourceFile(j.type, "right_id"))
                      ELSE j.cid
    <2>1. k \in {Fail(j, "cannot open context ids"), Fail(j, "context id files may be broken"),
                 [j EXCEPT !.rewrite = rewrite, !.cid = cid]}
      <3>1. k = IF rewrite = Dead \/ cid = Dead THEN Fail(j, "cannot open context ids")
                ELSE IF Ids(cid.value.left) # j.lsize \/ Ids(cid.value.right) # j.rsize
                THEN Fail(j, "context id files may be broken")
                ELSE [j EXCEPT !.rewrite = rewrite, !.cid = cid]
        BY DEF OpenForIds
      <3> HIDE DEF k, rewrite, cid
      <3> QED
        BY <3>1, Zenon
    <2> HIDE DEF k, rewrite, cid
    <2>2. SameWork(j, [j EXCEPT !.rewrite = rewrite, !.cid = cid])
      BY Noted, Zenon
    <2>3. /\ SameWork(j, Fail(j, "cannot open context ids"))
          /\ SameWork(j, Fail(j, "context id files may be broken"))
      BY Noted, Zenon
    <2> QED
      BY <2>1, <2>2, <2>3, Zenon
  <1> DEFINE r == RewriteFeature(k.rewrite.value, line.feature)
  <1>2. n \in {k, Fail(k, "rewrite failed"), Fail(k, "cannot find id")}
    <2>1. n = IF ~NeedsIds(line) \/ k.failed # "" THEN k
              ELSE IF r.is # "done" THEN Fail(k, "rewrite failed")
              ELSE IF r.value["left"] \notin DOMAIN k.cid.value.left \/ r.value["right"] \notin DOMAIN k.cid.value.right
              THEN Fail(k, "cannot find id") ELSE k
      BY DEF AfterIds
    <2> HIDE DEF k, n, r
    <2> QED
      BY <2>1, Zenon
  <1> HIDE DEF k, n
  <1>3. WorkFields \subseteq DOMAIN k
    BY <1>1 DEF SameWork
  <1>4. SameWork(k, n)
    BY <1>2, <1>3, Noted, SameWorkSelf, Zenon
  <1> QED
    BY <1>1, <1>4, SameWorkTwice DEF n

(* The feature of a new entry goes behind the others. *)
LEMMA FeatureNoted ==
  ASSUME NEW j, FeaturesKept(j), NEW S, j.dic \in Seq(S), NEW e,
         e.token.at = (IF j.wakati THEN 0 ELSE Len(j.features)),
         NEW k, k.dic = Append(j.dic, e), k.wakati = j.wakati,
         k.features = (IF j.wakati THEN j.features ELSE Append(j.features, e.feature))
  PROVE  FeaturesKept(k)
  <1>1. PICK F : j.features \in Seq(F)
    BY DEF FeaturesKept
  <1>2. \A i \in DOMAIN j.dic : IF j.wakati THEN j.dic[i].token.at = 0
                               ELSE /\ j.dic[i].token.at + 1 \in DOMAIN j.features
                                    /\ j.features[j.dic[i].token.at + 1] = j.dic[i].feature
    BY DEF FeaturesKept, AreNoted
  <1>3. /\ DOMAIN k.dic = 1 .. Len(j.dic) + 1 /\ DOMAIN j.dic = 1 .. Len(j.dic) /\ Len(j.dic) \in Nat
        /\ k.dic[Len(j.dic) + 1] = e /\ \A i \in 1 .. Len(j.dic) : k.dic[i] = j.dic[i]
    OBVIOUS
  <1>4. CASE j.wakati
    <2>1. \A i \in DOMAIN k.dic : i \in DOMAIN j.dic \/ i = Len(j.dic) + 1
      BY <1>3
    <2>2. \A i \in DOMAIN k.dic : k.dic[i].token.at = 0
      BY <1>2, <1>3, <1>4, <2>1
    <2> QED
      BY <1>1, <1>4, <2>2 DEF FeaturesKept, AreNoted
  <1>5. CASE ~j.wakati
    <2> DEFINE f == Append(j.features, e.feature)
    <2>1. f \in Seq(F \cup {e.feature})
      BY <1>1
    <2>2. /\ DOMAIN f = 1 .. Len(j.features) + 1 /\ DOMAIN j.features = 1 .. Len(j.features) /\ Len(j.features) \in Nat
          /\ f[Len(j.features) + 1] = e.feature /\ \A i \in 1 .. Len(j.features) : f[i] = j.features[i]
      BY <1>1
    <2>3. k.features = f /\ ~k.wakati
      BY <1>5
    <2> HIDE DEF f
    <2>4. ASSUME NEW i \in DOMAIN k.dic
          PROVE  k.dic[i].token.at + 1 \in DOMAIN f /\ f[k.dic[i].token.at + 1] = k.dic[i].feature
      <3>1. CASE i = Len(j.dic) + 1
        <4>1. k.dic[i] = e /\ e.token.at = Len(j.features)
          BY <1>3, <1>5, <3>1
        <4> QED
          BY <2>2, <4>1
      <3>2. CASE i # Len(j.dic) + 1
        <4>1. i \in DOMAIN j.dic /\ k.dic[i] = j.dic[i]
          BY <1>3, <3>2
        <4>2. j.dic[i].token.at + 1 \in 1 .. Len(j.features) /\ j.features[j.dic[i].token.at + 1] = j.dic[i].feature
          BY <1>2, <1>5, <2>2, <4>1, Zenon
        <4> DEFINE at == j.dic[i].token.at + 1
        <4> HIDE DEF at
        <4>3. at \in 1 .. Len(j.features) /\ j.features[at] = j.dic[i].feature
          BY <4>2 DEF at
        <4>4. at \in DOMAIN f /\ f[at] = j.dic[i].feature
          BY <2>2, <4>3
        <4> QED
          BY <4>1, <4>4 DEF at
      <3> QED
        BY <3>1, <3>2
    <2> QED
      BY <2>1, <2>3, <2>4, Zenon DEF FeaturesKept, AreNoted
  <1> QED
    BY <1>4, <1>5

(* An entry is entered with ids that were compared with the sizes. *)
LEMMA EntryFits ==
  ASSUME NEW j, IsJob(j), NEW line, line.word \in Seq(Bytes), NEW ids, NEW cost
  PROVE  /\ IsJob(Entered(j, line, ids, cost)) /\ Entered(j, line, ids, cost).files = j.files
         /\ Entered(j, line, ids, cost).built = j.built
  <1> DEFINE token == [lc |-> ids.lid, rc |-> ids.rid,
                       posid |-> Word16(PosId(j.posid, line.feature).value),
                       wcost |-> Wrap16(cost), at |-> IF j.wakati THEN 0 ELSE Len(j.features)]
             entry == [word |-> line.word, token |-> token, feature |-> line.feature]
             new == [j EXCEPT !.dic = Append(@, entry),
                              !.features = IF j.wakati THEN @ ELSE Append(@, line.feature)]
             n == Entered(j, line, ids, cost)
  <1>1. n = IF ~IsValid(j, ids.lid, ids.rid) THEN Fail(j, "invalid ids are found")
            ELSE IF line.word = <<>> \/ ~line.converts THEN j ELSE new
    BY DEF Entered
  <1>2. WorkFields \subseteq DOMAIN j
    BY DEF IsJob
  <1>3. CASE n \in {j, Fail(j, "invalid ids are found")}
    <2> HIDE DEF n
    <2>1. SameWork(j, n)
      BY <1>2, <1>3, Noted, SameWorkSelf, Zenon
    <2> QED
      BY <2>1, SameJob DEF SameWork, n
  <1>4. CASE IsValid(j, ids.lid, ids.rid) /\ n = new
    <2>1. /\ entry.token.lc \in 0 .. j.rsize - 1 /\ entry.token.rc \in 0 .. j.lsize - 1 /\ entry.word \in Seq(Bytes)
          /\ entry.token.at = (IF j.wakati THEN 0 ELSE Len(j.features)) /\ entry.feature = line.feature
      BY <1>4 DEF IsValid
    <2> HIDE DEF entry
    <2>2. /\ DOMAIN new = DOMAIN j /\ new.lsize = j.lsize /\ new.rsize = j.rsize
          /\ new.files = j.files /\ new.built = j.built /\ new.dic = Append(j.dic, entry)
          /\ new.features = (IF j.wakati THEN j.features ELSE Append(j.features, line.feature))
          /\ new.wakati = j.wakati
      BY <1>2 DEF WorkFields
    <2>3. PICK S : /\ j.dic \in Seq(S)
                   /\ \A e \in S : /\ e.word \in Seq(Bytes)
                                   /\ e.token.lc \in 0 .. j.rsize - 1 /\ e.token.rc \in 0 .. j.lsize - 1
      BY DEF IsJob, AreEntries
    <2>4. Append(j.dic, entry) \in Seq(S \cup {entry})
      BY <2>3
    <2> HIDE DEF new, n
    <2>5. AreEntries(new.dic, new.lsize, new.rsize)
      <3>1. \A e \in S \cup {entry} : /\ e.word \in Seq(Bytes)
                                      /\ e.token.lc \in 0 .. j.rsize - 1 /\ e.token.rc \in 0 .. j.lsize - 1
        BY <2>1, <2>3
      <3> QED
        BY <2>2, <2>4, <3>1 DEF AreEntries
    <2>6. FeaturesKept(new)
      BY <2>1, <2>2, <2>3, FeatureNoted, Zenon DEF IsJob
    <2> QED
      BY <1>4, <2>2, <2>5, <2>6 DEF IsJob, n
  <1> HIDE DEF n, new
  <1> QED
    BY <1>1, <1>3, <1>4, Zenon DEF n

(* One line. *)
LEMMA LineFits ==
  ASSUME NEW j, IsJob(j), NEW line, line.word \in Seq(Bytes), NEW char
  PROVE  /\ IsJob(AfterLine(j, line, char)) /\ AfterLine(j, line, char).files = j.files
         /\ AfterLine(j, line, char).built = j.built
  <1> DEFINE k == IF line.cost = IntMax THEN AfterCost(j, line, char) ELSE j
             n == IF k.failed = "" /\ NeedsIds(line) THEN AfterIds(k, line) ELSE k
             e == Entered(n, line, LineIds(n, line),
                          IF line.cost = IntMax THEN CalcCost(n, line, char) ELSE line.cost)
             a == AfterLine(j, line, char)
  <1>1. WorkFields \subseteq DOMAIN j
    BY DEF IsJob
  <1>2. SameWork(j, k)
    <2>1. SameWork(j, AfterCost(j, line, char)) /\ SameWork(j, j)
      BY <1>1, CostNoted, SameWorkSelf
    <2>2. k \in {AfterCost(j, line, char), j}
      BY Zenon
    <2> HIDE DEF k
    <2> QED
      BY <2>1, <2>2
  <1>3. SameWork(k, n)
    <2> HIDE DEF k
    <2>1. WorkFields \subseteq DOMAIN k
      BY <1>1, <1>2 DEF SameWork
    <2>2. SameWork(k, AfterIds(k, line)) /\ SameWork(k, k)
      BY <2>1, IdsNoted, SameWorkSelf
    <2>3. n \in {AfterIds(k, line), k}
      BY Zenon
    <2> HIDE DEF n
    <2> QED
      BY <2>2, <2>3
  <1>4. a = IF line.kind = "bad" THEN Fail(j, "format error")
            ELSE IF PosId(j.posid, line.feature) = Dead THEN Fail(j, "posid")
            ELSE IF n.failed # "" THEN n ELSE e
    BY DEF AfterLine
  <1> HIDE DEF k, n
  <1>5. SameWork(j, n)
    BY <1>2, <1>3, SameWorkTwice
  <1>6. IsJob(n) /\ n.files = j.files /\ n.built = j.built
    BY <1>5, SameJob DEF SameWork
  <1>7. IsJob(e) /\ e.files = j.files /\ e.built = j.built
    BY <1>6, EntryFits
  <1>8. \A why_ \in {"format error", "posid"} :
          IsJob(Fail(j, why_)) /\ Fail(j, why_).files = j.files /\ Fail(j, why_).built = j.built
    BY <1>1, Noted, SameJob, Zenon DEF SameWork
  <1> HIDE DEF e, a
  <1> QED
    BY <1>4, <1>6, <1>7, <1>8, Zenon DEF a

(* What is compiled for a directory. *)
SourceOK == source \in Sources \cup Again
IsTable(c) ==
  /\ c.lsize \in Nat /\ c.rsize \in Nat
  /\ \A t \in Range(c.tokens) : t.lc \in 0 .. c.rsize - 1 /\ t.rc \in 0 .. c.lsize - 1
IsMatrix(c) ==
  /\ c.lsize \in Nat /\ c.rsize \in Nat
  /\ DOMAIN c.cells = 0 .. c.lsize * c.rsize - 1
Suits(f, content) == (IsDic(f) => IsTable(content)) /\ (f = "matrix" => IsMatrix(content))
ContentsOK == \A f \in Names : files[f] # NoFile => Suits(f, Contents(f))
JobAt ==
  job # NoJob => /\ IsJob(job)
                 /\ outcome = "running" /\ ~pending /\ plan # <<>> /\ IsDic(Head(plan))
WordsInv == RunOK /\ SourceOK /\ JobAt /\ ContentsOK

(* The cell of two ids inside the sizes. *)
LEMMA CellInside ==
  ASSUME NEW l \in Nat, NEW r \in Nat, NEW x \in 0 .. l - 1, NEW y \in 0 .. r - 1
  PROVE  x + l * y \in 0 .. l * r - 1
  <1>1. y \in Nat /\ y + 1 <= r /\ x \in Nat /\ x <= l - 1 /\ r - (y + 1) \in Nat
    OBVIOUS
  <1>2. l * y \in Nat /\ l * r \in Nat /\ l * (y + 1) = l * y + l /\ l * (r - (y + 1)) \in Nat
    BY <1>1
  <1>3. l * r = l * (y + 1) + l * (r - (y + 1))
    BY <1>1
  <1> QED
    BY <1>1, <1>2, <1>3

LEMMA Cut16 ==
  ASSUME NEW n \in Nat PROVE Word16(n) \in Nat
  <1> DEFINE k == 2 * CostMax + 2
  <1>1. k \in Nat /\ k > 0
    BY CostMaxAssumption
  <1> HIDE DEF k
  <1>2. n % k \in Nat
    BY <1>1
  <1> QED
    BY <1>2 DEF Word16, k

LEMMA MatrixMade ==
  ASSUME NEW def, HeadReadable(def) => def.lsize \in Nat /\ def.rsize \in Nat, CompileMatrix(def) # Dead
  PROVE  IsMatrix(CompileMatrix(def).value)
  <1> DEFINE lsize == Word16(def.lsize)
             rsize == Word16(def.rsize)
             LinesFor(cell) == {i \in DOMAIN def.lines : def.lines[i].l + lsize * def.lines[i].r = cell}
             CostOf(cell) ==
               IF LinesFor(cell) = {} THEN 0
               ELSE Wrap16(def.lines[CHOOSE i \in LinesFor(cell) : \A j \in LinesFor(cell) : j <= i].cost)
             cells == [cell \in 0 .. lsize * rsize - 1 |-> CostOf(cell)]
  <1>1. /\ CompileMatrix(def) = Done([lsize |-> lsize, rsize |-> rsize, cells |-> cells])
        /\ HeadReadable(def)
    <2> DEFINE Sets(line) == LineReadable(line) /\ line.l \in 0 .. lsize - 1 /\ line.r \in 0 .. rsize - 1
               made == Done([lsize |-> lsize, rsize |-> rsize, cells |-> cells])
    <2>1. CompileMatrix(def) =
            IF ~HeadReadable(def) \/ \E i \in DOMAIN def.lines : ~Sets(def.lines[i]) THEN Dead ELSE made
      BY DEF CompileMatrix
    <2> HIDE DEF made, Sets
    <2>2. CompileMatrix(def) = made /\ HeadReadable(def)
      BY <2>1
    <2> QED
      BY <2>2 DEF made
  <1>2. DOMAIN cells = 0 .. lsize * rsize - 1
    OBVIOUS
  <1>3. lsize \in Nat /\ rsize \in Nat
    BY <1>1, Cut16
  <1> HIDE DEF cells, lsize, rsize
  <1>4. CompileMatrix(def).value = [lsize |-> lsize, rsize |-> rsize, cells |-> cells]
    BY <1>1 DEF Done
  <1> QED
    BY <1>2, <1>3, <1>4 DEF IsMatrix

(* The dictionary that is written. *)
LEMMA BinaryTable ==
  ASSUME IsJob(job) PROVE IsTable(Binary)
  <1> DEFINE sorted == SortedDic(job.dic)
             tokens == [i \in DOMAIN sorted |-> sorted[i].token]
  <1>1. Binary.lsize = job.lsize /\ Binary.rsize = job.rsize /\ Binary.tokens = tokens
    BY DEF Binary
  <1>2. PICK S : /\ job.dic \in Seq(S)
                 /\ \A e \in S : /\ e.word \in Seq(Bytes)
                                 /\ e.token.lc \in 0 .. job.rsize - 1 /\ e.token.rc \in 0 .. job.lsize - 1
    BY DEF IsJob, AreEntries
  <1>3. \A i \in DOMAIN sorted : \E k \in DOMAIN job.dic : sorted[i] = job.dic[k]
    BY SortedFrom DEF IsJob
  <1> HIDE DEF sorted
  <1>4. \A i \in DOMAIN sorted : sorted[i] \in S
    BY <1>2, <1>3
  <1>5. \A t \in Range(tokens) : t.lc \in 0 .. job.rsize - 1 /\ t.rc \in 0 .. job.lsize - 1
    <2>1. \A i \in DOMAIN tokens : tokens[i] = sorted[i].token /\ i \in DOMAIN sorted
      OBVIOUS
    <2> HIDE DEF tokens
    <2> QED
      BY <1>2, <1>4, <2>1 DEF Range
  <1> HIDE DEF tokens
  <1> QED
    BY <1>1, <1>5 DEF IsTable, IsJob

(* A new job. *)
LEMMA JobBegun ==
  ASSUME NEW type, NEW fs, AreLines(fs), NEW sizes, sizes.lsize \in Nat, sizes.rsize \in Nat,
         NEW rules, NEW wakati, NEW factor
  PROVE  IsJob(Job(type, fs, sizes, rules, wakati, factor))
  <1> DEFINE j == Job(type, fs, sizes, rules, wakati, factor)
  <1>1. /\ {"lsize", "rsize", "files", "dic", "features", "wakati", "failed", "built"} \subseteq DOMAIN j
        /\ j.lsize = sizes.lsize /\ j.rsize = sizes.rsize /\ j.files = fs /\ j.dic = <<>>
        /\ j.features = <<>>
    BY DEF Job
  <1> HIDE DEF j
  <1>2. j.dic \in Seq({})
    BY <1>1
  <1>3. AreEntries(j.dic, j.lsize, j.rsize)
    BY <1>2 DEF AreEntries
  <1>4. FeaturesKept(j)
    <2>1. j.features \in Seq({}) /\ DOMAIN j.dic = {}
      BY <1>1
    <2> QED
      BY <2>1 DEF FeaturesKept, AreNoted
  <1> QED
    BY <1>1, <1>3, <1>4 DEF IsJob, WorkFields, j

(* The texts of the sources. *)
LEMMA UnkDefText ==
  ASSUME SourceOK PROVE IsText(UnkDef)
  <1>1. IsText(UnkDefDefault)
    <2> DEFINE Line(name) == [kind |-> "entry", word |-> name, lid |-> 0, rid |-> 0, cost |-> 0,
                              feature |-> <<"*">>, converts |-> TRUE]
               a == Line(Default)
               b == Line(SpaceName)
               t == <<a, b>>
    <2>1. UnkDefDefault = t
      BY DEF UnkDefDefault
    <2>2. a.word \in Seq(Bytes) /\ b.word \in Seq(Bytes)
      BY SourcesAssumption
    <2> HIDE DEF a, b
    <2>3. t \in Seq({a, b}) /\ DOMAIN t = {1, 2} /\ t[1] = a /\ t[2] = b
      OBVIOUS
    <2> HIDE DEF t
    <2>4. Range(t) = {a, b}
      BY <2>3 DEF Range
    <2>5. \A i \in DOMAIN t : t[i].word \in Seq(Bytes)
      BY <2>2, <2>3
    <2> QED
      BY <2>1, <2>3, <2>4, <2>5 DEF IsText
  <1>2. source.unk_def = Missing \/ IsText(source.unk_def)
    BY SourcesAssumption DEF SourceOK
  <1>3. IsText(OrDefault(source.unk_def, UnkDefDefault))
    BY <1>1, <1>2 DEF OrDefault
  <1> QED
    BY <1>3, UnreadText DEF UnkDef

LEMMA OneText ==
  ASSUME NEW t, IsText(t) PROVE AreLines(LinesOf(<<t>>))
  <1> DEFINE fs == <<t>>
  <1>1. fs \in Seq({t}) /\ DOMAIN fs = {1} /\ fs[1] = t
    OBVIOUS
  <1> HIDE DEF fs
  <1>2. Range(fs) = {t}
    BY <1>1 DEF Range
  <1> QED
    BY <1>1, <1>2, LinesOfTexts, Zenon DEF fs

LEMMA SizesAre ==
  ASSUME WordsInv, NEW type, ~SizesUnreadable(type)
  PROVE  MatrixSizes(type).lsize \in Nat /\ MatrixSizes(type).rsize \in Nat
  <1> DEFINE def == SourceFile(type, "matrix_def")
             bin == MatrixBin(type)
  <1>1. CASE def # Missing
    <2>1. MatrixSizes(type) = source.matrix_def /\ source.matrix_def # Missing /\ HeadReadable(source.matrix_def)
      BY <1>1 DEF MatrixSizes, SizesUnreadable, SourceFile
    <2> QED
      BY <2>1, SourcesAssumption DEF WordsInv, SourceOK
  <1>2. CASE def = Missing /\ bin # Missing
    <2>1. MatrixSizes(type) = bin
      BY <1>2 DEF MatrixSizes
    <2>2. CASE bin = source.matrix_bin
      BY <1>2, <2>1, <2>2, SourcesAssumption DEF WordsInv, SourceOK
    <2>3. CASE bin = Contents("matrix") /\ ConnectorOpens
      <3>1. files["matrix"] # NoFile
        BY <2>3 DEF ConnectorOpens, Mapped
      <3> QED
        BY <2>1, <2>3, <3>1 DEF WordsInv, ContentsOK, Suits, IsMatrix, Names
    <2> QED
      BY <1>2, <2>2, <2>3 DEF MatrixBin
  <1>3. CASE def = Missing /\ bin = Missing
    BY <1>3 DEF MatrixSizes
  <1> QED
    BY <1>1, <1>2, <1>3

(* A file that is opened for what was compiled. *)
LEMMA ContentsBegun ==
  ASSUME WordsInv, NEW content, Going, Truncate(content), Suits(Head(plan), content)
  PROVE  ContentsOK'
  <1> DEFINE h == Head(plan)
             new == [magic |-> 0, bytes |-> 0, content |-> content, run |-> runs, bad |-> FALSE]
  <1>1. files' = [files EXCEPT ![h] = new] /\ h \in Names /\ DOMAIN files = Names
    BY HeadOfPlan DEF Going, Truncate, WordsInv, RunOK, FilesOK
  <1>2. new.content = content
    OBVIOUS
  <1> HIDE DEF new
  <1>3. files'[h] = new /\ \A f \in Names : f # h => files'[f] = files[f]
    BY <1>1
  <1> QED
    BY <1>2, <1>3 DEF ContentsOK, Contents, Suits, WordsInv, IsDic, h

(* A file that is filled or closed keeps its content. *)
LEMMA ContentsStay ==
  ASSUME WordsInv, outcome = "running", pending, NEW x, x.content = files[Head(plan)].content,
         files' = [files EXCEPT ![Head(plan)] = x] \/ files' = files
  PROVE  ContentsOK'
  <1> DEFINE h == Head(plan)
  <1>1. h \in Names /\ files[h] # NoFile
    <2>1. h \in Names /\ files[h].run = runs /\ runs > 0
      BY OpenIsNew DEF WordsInv, RunOK, Numbered
    <2> QED
      BY <2>1 DEF NoFile
  <1>2. DOMAIN files = Names
    BY DEF WordsInv, RunOK, FilesOK
  <1>3. ContentsOK
    BY DEF WordsInv
  <1>4. CASE files' = files
    BY <1>3, <1>4 DEF ContentsOK, Contents, Suits, IsDic
  <1>5. CASE files' = [files EXCEPT ![h] = x]
    <2>1. files'[h] = x /\ \A f \in Names : f # h => files'[f] = files[f]
      BY <1>1, <1>2, <1>5
    <2>2. Suits(h, x.content)
      BY <1>1, <1>3 DEF ContentsOK, Contents
    <2> QED
      BY <1>3, <2>1, <2>2 DEF ContentsOK, Contents, Suits, IsDic
  <1> QED
    BY <1>4, <1>5

LEMMA ContentsSame ==
  ASSUME ContentsOK, UNCHANGED files PROVE ContentsOK'
  BY DEF ContentsOK, Contents, Suits, IsDic

(* A new compilation. *)
LEMMA Compiled ==
  ASSUME WordsInv, BeginDictionary PROVE JobAt'
  <1> DEFINE type == Head(plan)
             csv == CASE type = "unk" -> <<UnkDef>> [] type = "sys" -> source.csv
                      [] OTHER -> <<source.user_csv>>
             conf == BuildConf(IF type = "user" THEN "user" ELSE "system")
             factor == Get(conf, "cost-factor", 0)
             new == Job(type, LinesOf(csv), MatrixSizes(type), PosIdRules(SourceFile(type, "pos_id")),
                        Get(conf, "wakati", FALSE), factor)
  <1>1. /\ Going /\ IsDic(type)
        /\ \/ job' = NoJob
           \/ csv # <<Missing>> /\ ~SizesUnreadable(type) /\ job' = new /\ UNCHANGED <<plan, pending, outcome>>
    BY Zenon DEF BeginDictionary, Fails
  <1>2. ASSUME csv # <<Missing>> PROVE AreLines(LinesOf(csv))
    <2>1. CASE type = "unk"
      <3>1. csv = <<UnkDef>>
        BY <2>1
      <3> HIDE DEF csv
      <3> QED
        BY <3>1, UnkDefText, OneText DEF WordsInv
    <2>2. CASE type = "sys"
      <3>1. csv = source.csv
        BY <2>2
      <3> HIDE DEF csv
      <3>2. csv \in Seq(Range(csv)) /\ \A i \in DOMAIN csv : IsText(csv[i])
        BY <3>1, SourcesAssumption DEF WordsInv, SourceOK
      <3> QED
        BY <3>2, LinesOfTexts
    <2>3. CASE type # "unk" /\ type # "sys"
      <3>1. csv = <<source.user_csv>>
        BY <2>3
      <3> HIDE DEF csv
      <3>2. source.user_csv # Missing
        BY <1>2, <3>1
      <3>3. IsText(source.user_csv)
        BY <3>2, SourcesAssumption DEF WordsInv, SourceOK
      <3> QED
        BY <3>1, <3>3, OneText
    <2> QED
      BY <2>1, <2>2, <2>3
  <1> HIDE DEF csv, conf, factor
  <1>3. csv # <<Missing>> /\ ~SizesUnreadable(type) => IsJob(new)
    <2> HIDE DEF new, type
    <2>1. ASSUME csv # <<Missing>>, ~SizesUnreadable(type) PROVE IsJob(new)
      BY <1>2, <2>1, SizesAre, JobBegun, Zenon DEF new
    <2> QED
      BY <2>1
  <1> HIDE DEF new
  <1> QED
    BY <1>1, <1>3 DEF JobAt, Going, IsDic

(* A line of it. *)
LEMMA LineCompiled ==
  ASSUME WordsInv, ReadLines PROVE JobAt' /\ job' # NoJob /\ job'.built = job.built
  <1>1. /\ job # NoJob /\ job.files # <<>> /\ UNCHANGED <<plan, pending, outcome>>
        /\ job' = [AfterLine(job, Head(job.files), CharBin) EXCEPT !.files = Tail(@)]
    BY Zenon DEF ReadLines, ReadLine
  <1>2. IsJob(job) /\ outcome = "running" /\ ~pending /\ plan # <<>> /\ IsDic(Head(plan))
    BY <1>1 DEF WordsInv, JobAt
  <1>3. PICK S : job.files \in Seq(S) /\ \A l \in S : l.word \in Seq(Bytes)
    BY <1>2 DEF IsJob, AreLines
  <1>4. Head(job.files) \in S /\ Tail(job.files) \in Seq(S)
    BY <1>1, <1>3
  <1> DEFINE j == AfterLine(job, Head(job.files), CharBin)
  <1>5. IsJob(j) /\ j.files = job.files /\ j.built = job.built
    BY <1>2, <1>3, <1>4, LineFits
  <1> HIDE DEF j
  <1>6. IsJob([j EXCEPT !.files = Tail(@)]) /\ [j EXCEPT !.files = Tail(@)].built = j.built
    <2> DEFINE k == [j EXCEPT !.files = Tail(@)]
    <2>1. {"lsize", "rsize", "files", "dic", "features", "wakati", "failed", "built"} \subseteq DOMAIN j
      BY <1>5 DEF IsJob, WorkFields
    <2>2. /\ DOMAIN k = DOMAIN j /\ k.lsize = j.lsize /\ k.rsize = j.rsize /\ k.dic = j.dic
          /\ k.files = Tail(job.files) /\ k.built = j.built
          /\ k.features = j.features /\ k.wakati = j.wakati
      BY <1>5, <2>1
    <2> HIDE DEF k
    <2> QED
      BY <1>3, <1>4, <1>5, <2>2 DEF IsJob, AreLines, FeaturesKept, k
  <1>7. job' # NoJob
    <2>1. "lsize" \in DOMAIN job' /\ "lsize" \notin DOMAIN NoJob
      BY <1>1, <1>6 DEF IsJob, WorkFields, NoJob, j
    <2> QED
      BY <2>1
  <1> QED
    BY <1>1, <1>2, <1>5, <1>6, <1>7 DEF JobAt, j, IsDic

(* The source stays one of those that are built. *)
LEMMA SourceStep ==
  ASSUME SourceOK, [Next]_vars PROVE SourceOK'
  <1>1. source' = source \/ source' \in Again
    BY Zenon DEF Next, vars, lexiconVars, Rest, Run, Edit, CompileCharBin, BeginDictionary, ReadLines, ReadLine,
           LineFails, BuildArray, EndOfLines, NoWord, InArray, GrowFails, WriteDictionary, CompileMatrixBin,
           Fill, WriteFails, Close, Finish, Crash
  <1> QED
    BY <1>1 DEF SourceOK

LEMMA WordsStep ==
  ASSUME WordsInv, [Next]_vars PROVE WordsInv'
  <1> SUFFICES JobAt' /\ ContentsOK'
    BY RunStep, SourceStep DEF WordsInv
  <1>0. JobAt /\ ContentsOK
    BY DEF WordsInv
  <1>1. CASE Rest \/ UNCHANGED vars
    <2>1. UNCHANGED <<job, outcome, pending, plan, files>>
      BY <1>1 DEF Rest, vars, lexiconVars
    <2> QED
      BY <1>0, <2>1, ContentsSame DEF JobAt, IsDic
  <1>2. CASE Run("system") \/ Run("user")
    <2>1. outcome # "running" /\ UNCHANGED files /\ (job' = NoJob \/ UNCHANGED job)
      BY <1>2, Zenon DEF Run, Fails
    <2> QED
      BY <1>0, <2>1, ContentsSame DEF JobAt
  <1>3. CASE Edit
    <2>1. UNCHANGED <<job, outcome, pending, plan, files>>
      BY <1>3 DEF Edit
    <2> QED
      BY <1>0, <2>1, ContentsSame DEF JobAt, IsDic
  <1>4. CASE CompileCharBin
    <2> DEFINE def == OrDefault(source.char_def, CharDefDefault)
               table == CompileChar(def, {UnkDef[i].word : i \in DOMAIN UnkDef})
    <2>1. /\ Going /\ Head(plan) = "char"
          /\ \/ job' = NoJob /\ UNCHANGED files
             \/ Truncate(table.value) /\ UNCHANGED job
      BY <1>4 DEF CompileCharBin, Fails, Denied
    <2>2. job = NoJob /\ Suits(Head(plan), table.value)
      BY <1>0, <2>1 DEF JobAt, Suits, IsDic
    <2> HIDE DEF table
    <2> QED
      BY <1>0, <2>1, <2>2, ContentsBegun, ContentsSame DEF JobAt
  <1>5. CASE BeginDictionary
    <2>1. UNCHANGED files
      BY <1>5, Zenon DEF BeginDictionary
    <2> QED
      BY <1>0, <1>5, <2>1, Compiled, ContentsSame
  <1>6. CASE ReadLines
    <2>1. UNCHANGED files
      BY <1>6 DEF ReadLines
    <2> QED
      BY <1>0, <1>6, <2>1, LineCompiled, ContentsSame
  <1>7. CASE LineFails \/ NoWord \/ GrowFails \/ Crash
    <2>1. job' = NoJob /\ UNCHANGED files
      BY <1>7, Zenon DEF LineFails, NoWord, GrowFails, Crash, Fails
    <2> QED
      BY <1>0, <2>1, ContentsSame DEF JobAt
  <1>8. CASE BuildArray
    <2>1. /\ job # NoJob /\ job' = [job EXCEPT !.built = TRUE]
          /\ UNCHANGED <<outcome, pending, plan, files>>
      BY <1>8, Zenon DEF BuildArray, EndOfLines
    <2>2. IsJob(job)
      BY <1>0, <2>1 DEF JobAt
    <2>3. /\ DOMAIN job' = DOMAIN job /\ job'.lsize = job.lsize /\ job'.rsize = job.rsize
          /\ job'.files = job.files /\ job'.dic = job.dic
          /\ job'.features = job.features /\ job'.wakati = job.wakati
      <3>1. {"lsize", "rsize", "files", "dic", "features", "wakati", "failed", "built"} \subseteq DOMAIN job
        BY <2>2 DEF IsJob, WorkFields
      <3> QED
        BY <2>1, <3>1
    <2>4. IsJob(job')
      BY <2>2, <2>3 DEF IsJob, FeaturesKept
    <2> QED
      BY <1>0, <2>1, <2>4, ContentsSame DEF JobAt, IsDic
  <1>9. CASE InArray
    <2>1. UNCHANGED <<job, outcome, pending, plan, files>>
      BY <1>9 DEF InArray, lexiconVars
    <2> QED
      BY <1>0, <2>1, ContentsSame DEF JobAt, IsDic
  <1>10. CASE WriteDictionary
    <2>1. Going /\ job # NoJob /\ job' = NoJob /\ (Truncate(Binary) \/ UNCHANGED files)
      BY <1>10, Zenon DEF WriteDictionary, Denied, Fails
    <2>2. IsJob(job) /\ IsDic(Head(plan))
      BY <1>0, <2>1 DEF JobAt
    <2>3. Suits(Head(plan), Binary)
      BY <2>2, BinaryTable DEF Suits, IsDic
    <2> QED
      BY <1>0, <2>1, <2>3, ContentsBegun, ContentsSame DEF JobAt
  <1>11. CASE CompileMatrixBin
    <2> DEFINE def == OrDefault(source.matrix_def, MatrixDefDefault)
               m == CompileMatrix(def)
    <2>1. /\ Going /\ Head(plan) = "matrix"
          /\ \/ job' = NoJob /\ UNCHANGED files
             \/ m # Dead /\ Truncate(m.value) /\ UNCHANGED job
      BY <1>11, Zenon DEF CompileMatrixBin, Denied, Fails
    <2>2. HeadReadable(def) => def.lsize \in Nat /\ def.rsize \in Nat
      <3>1. CASE source.matrix_def = Missing
        BY <3>1 DEF OrDefault, MatrixDefDefault
      <3>2. CASE source.matrix_def # Missing
        <4>1. def = source.matrix_def
          BY <3>2 DEF OrDefault
        <4> HIDE DEF def
        <4> QED
          BY <3>2, <4>1, SourcesAssumption DEF WordsInv, SourceOK
      <3> QED
        BY <3>1, <3>2
    <2> HIDE DEF def
    <2>3. m # Dead => Suits(Head(plan), m.value)
      BY <2>1, <2>2, MatrixMade DEF Suits, IsDic
    <2>4. job = NoJob
      BY <1>0, <2>1 DEF JobAt, IsDic
    <2> HIDE DEF m
    <2> QED
      BY <1>0, <2>1, <2>3, <2>4, ContentsBegun, ContentsSame DEF JobAt
  <1>12. CASE Fill
    <2> DEFINE x == [files[Head(plan)] EXCEPT !.bytes = @ + 1]
    <2>1. /\ outcome = "running" /\ pending /\ files' = [files EXCEPT ![Head(plan)] = x]
          /\ UNCHANGED job
      BY <1>12 DEF Fill, Writing, lexiconVars
    <2>2. IsFile(files[Head(plan)])
      BY <2>1, OpenIsNew DEF WordsInv
    <2>3. x.content = files[Head(plan)].content
      BY <2>2 DEF IsFile
    <2>4. job = NoJob
      BY <1>0, <2>1 DEF JobAt
    <2> HIDE DEF x
    <2> QED
      BY <2>1, <2>3, <2>4, ContentsStay, Zenon DEF JobAt
  <1>13. CASE Close
    <2> DEFINE x == [files[Head(plan)] EXCEPT !.magic = All]
    <2>1. /\ outcome = "running" /\ pending
          /\ files' = [files EXCEPT ![Head(plan)] = x] \/ files' = files
          /\ UNCHANGED job
      BY <1>13 DEF Close, Writing, lexiconVars
    <2>2. IsFile(files[Head(plan)])
      BY <2>1, OpenIsNew DEF WordsInv
    <2>3. x.content = files[Head(plan)].content
      BY <2>2 DEF IsFile
    <2>4. job = NoJob
      BY <1>0, <2>1 DEF JobAt
    <2> HIDE DEF x
    <2> QED
      BY <2>1, <2>3, <2>4, ContentsStay DEF JobAt
  <1>14. CASE WriteFails
    <2> DEFINE x == [files[Head(plan)] EXCEPT !.bad = TRUE]
    <2>1. /\ outcome = "running" /\ pending /\ files' = [files EXCEPT ![Head(plan)] = x]
          /\ UNCHANGED job
      BY <1>14 DEF WriteFails, Writing, lexiconVars
    <2>2. IsFile(files[Head(plan)])
      BY <2>1, OpenIsNew DEF WordsInv
    <2>3. x.content = files[Head(plan)].content
      BY <2>2 DEF IsFile
    <2>4. job = NoJob
      BY <1>0, <2>1 DEF JobAt
    <2> HIDE DEF x
    <2> QED
      BY <2>1, <2>3, <2>4, ContentsStay, Zenon DEF JobAt
  <1>15. CASE Finish
    <2>1. plan = <<>> /\ UNCHANGED <<job, files>>
      BY <1>15 DEF Finish, lexiconVars
    <2> QED
      BY <1>0, <2>1, ContentsSame DEF JobAt
  <1> QED
    BY <1>1, <1>2, <1>3, <1>4, <1>5, <1>6, <1>7, <1>8, <1>9, <1>10, <1>11, <1>12, <1>13, <1>14, <1>15 DEF Next

(* In a model that opens the sizes of the three files agree. *)
LEMMA OpenFits ==
  ASSUME WordsInv PROVE WordIdsInMatrix
  <1> SUFFICES ASSUME ModelOpens(FALSE) PROVE InMatrix(SystemTokens \cup UserTokens)
    BY DEF WordIdsInMatrix
  <1> DEFINE m == Contents("matrix")
             s == Contents("sys")
             u == Contents("user")
  <1>1. /\ files["sys"] # NoFile /\ files["matrix"] # NoFile
        /\ s.lsize = m.lsize /\ s.rsize = m.rsize
    BY Zenon DEF ModelOpens, ViterbiOpens, TokenizerOpens, ConnectorOpens, DictionaryOpens, Mapped
  <1>2. ModelOpens(TRUE) => files["user"] # NoFile /\ u.lsize = s.lsize /\ u.rsize = s.rsize
    BY DEF ModelOpens, ViterbiOpens, TokenizerOpens, DictionaryOpens, Mapped
  <1>3. IsMatrix(m) /\ IsTable(s) /\ (files["user"] # NoFile => IsTable(u))
    BY <1>1 DEF WordsInv, ContentsOK, Suits, IsDic, Names
  <1> HIDE DEF m, s, u
  <1>4. ASSUME NEW t \in SystemTokens \cup UserTokens
        PROVE  t.lc \in 0 .. m.rsize - 1 /\ t.rc \in 0 .. m.lsize - 1
    <2>1. CASE t \in SystemTokens
      BY <1>1, <1>3, <2>1 DEF SystemTokens, IsTable, s
    <2>2. CASE t \in UserTokens
      <3>1. ModelOpens(TRUE) /\ t \in Range(u.tokens)
        BY <2>2, Zenon DEF UserTokens, u
      <3> QED
        BY <1>1, <1>2, <1>3, <3>1 DEF IsTable
    <2> QED
      BY <1>4, <2>1, <2>2
  <1>5. ASSUME NEW x \in SystemTokens \cup UserTokens, NEW y \in SystemTokens \cup UserTokens
        PROVE  CostCell(m, x.rc, y.lc) \in DOMAIN m.cells
    <2>1. x.rc \in 0 .. m.lsize - 1 /\ y.lc \in 0 .. m.rsize - 1
      BY <1>4
    <2>2. m.lsize \in Nat /\ m.rsize \in Nat /\ DOMAIN m.cells = 0 .. m.lsize * m.rsize - 1
      BY <1>3 DEF IsMatrix
    <2>3. x.rc + m.lsize * y.lc \in 0 .. m.lsize * m.rsize - 1
      BY <2>1, <2>2, CellInside, Zenon
    <2> QED
      BY <2>2, <2>3 DEF CostCell
  <1> QED
    BY <1>5 DEF InMatrix, m

(* In a model that opens, every pair of words of the system and the user    *)
(* dictionary has a cell in the matrix, from whichever runs over whichever *)
(* sources its files are: ids are compared with the sizes a dictionary is  *)
(* compiled for, the dictionary keeps these, and opening compares them     *)
(* (dictionary.cpp:354, viterbi.cpp:56, tokenizer.cpp:120).                *)
THEOREM IdsFitMatrix == Spec => []WordIdsInMatrix
  <1>1. Init => WordsInv
    <2> SUFFICES ASSUME Init PROVE WordsInv
      OBVIOUS
    <2>1. RunOK
      BY RunInit
    <2>2. SourceOK /\ JobAt /\ ContentsOK
      BY Zenon DEF Init, SourceOK, JobAt, ContentsOK
    <2> QED
      BY <2>1, <2>2 DEF WordsInv
  <1>2. WordsInv /\ [Next]_vars => WordsInv'
    BY WordsStep
  <1>3. WordsInv => WordIdsInMatrix
    BY OpenFits
  <1> QED
    BY <1>1, <1>2, <1>3, PTL DEF Spec

------------------------------------------------------------------------------
(* The array while words are placed in it.                                   *)

ArrayIs(a, n) == n \in Nat /\ a \in [0 .. n - 1 -> Cell]
LEMMA AllocIs ==
  ASSUME NEW n, ArrayIs(array, n) PROVE alloc = n /\ alloc \in Nat
  <1>1. DOMAIN array = 0 .. n - 1 /\ n \in Nat
    BY DEF ArrayIs
  <1>2. 0 \in Int /\ n - 1 \in Int /\ (IF 0 > n - 1 THEN 0 ELSE (n - 1) - 0 + 1) = n
    BY <1>1
  <1>3. Cardinality(0 .. n - 1) = n
    BY <1>2, FS_Interval, Zenon
  <1> QED
    BY <1>1, <1>3 DEF alloc
LEMMA AllocPrimed ==
  ASSUME NEW n, ArrayIs(array', n) PROVE alloc' = n /\ alloc' \in Nat
  <1>1. DOMAIN array' = 0 .. n - 1 /\ n \in Nat
    BY DEF ArrayIs
  <1>2. 0 \in Int /\ n - 1 \in Int /\ (IF 0 > n - 1 THEN 0 ELSE (n - 1) - 0 + 1) = n
    BY <1>1
  <1>3. Cardinality(0 .. n - 1) = n
    BY <1>2, FS_Interval, Zenon
  <1> QED
    BY <1>1, <1>3 DEF alloc

(* The first allocation is not empty, and an array never shrinks. *)
LEMMA Growing ==
  InitialAlloc \in Nat /\ InitialAlloc > 0 /\ GrowPercent \in Nat /\ GrowPercent >= 100
  <1>1. /\ InitialAlloc \in Nat /\ GrowPercent \in Nat /\ MaxByte \in Nat
        /\ InitialAlloc * GrowPercent >= 100 * (InitialAlloc + MaxByte + 2)
    BY ArrayConstants
  <1>2. InitialAlloc # 0
    <2> SUFFICES ASSUME InitialAlloc = 0 PROVE FALSE
      OBVIOUS
    <2>1. InitialAlloc * GrowPercent = 0
      BY <1>1
    <2> QED
      BY <1>1, <2>1
  <1>3. GrowPercent >= 100
    <2> SUFFICES ASSUME GrowPercent < 100 PROVE FALSE
      BY <1>1
    <2>1. 100 - GrowPercent \in Nat
      BY <1>1
    <2>2. InitialAlloc * (100 - GrowPercent) \in Nat
      BY <1>1, <2>1
    <2>3. InitialAlloc * 100 = InitialAlloc * GrowPercent + InitialAlloc * (100 - GrowPercent)
      BY <1>1
    <2>4. InitialAlloc * GrowPercent \in Nat
      BY <1>1
    <2> QED
      BY <1>1, <2>2, <2>3, <2>4
  <1> QED
    BY <1>1, <1>2, <1>3

LEMMA GrownLarger ==
  ASSUME NEW n \in Nat, progress \in Nat, progress > 0, Len(keys) \in Nat
  PROVE  Grown(n) \in Nat /\ Grown(n) >= n
  <1> DEFINE more == Larger(GrowPercent * progress, 100 * Len(keys))
             by == 100 * progress
  <1>1. by \in Nat /\ by > 0
    OBVIOUS
  <1>2. more \in Nat /\ more >= by
    <2>1. GrowPercent * progress \in Nat /\ 100 * Len(keys) \in Nat
      BY Growing
    <2>2. GrowPercent * progress >= by
      <3>1. (GrowPercent - 100) \in Nat
        BY Growing
      <3>2. (GrowPercent - 100) * progress \in Nat
        BY <3>1
      <3>3. GrowPercent * progress = (GrowPercent - 100) * progress + 100 * progress
        BY Growing
      <3> QED
        BY <3>2, <3>3, <2>1
    <2> HIDE DEF by
    <2> QED
      BY <1>1, <2>1, <2>2 DEF Larger
  <1>3. Grown(n) = (n * more) \div by
    BY DEF Grown
  <1> HIDE DEF more, by
  <1>4. n * more \in Nat /\ n * by \in Nat /\ n * more >= n * by
    <2>1. more - by \in Nat
      BY <1>1, <1>2
    <2>2. n * (more - by) \in Nat /\ n * more = n * by + n * (more - by)
      BY <1>1, <1>2, <2>1
    <2>3. n * by \in Nat
      BY <1>1
    <2> QED
      BY <1>2, <2>2, <2>3
  <1> DEFINE x == n * more
             q == x \div by
  <1>5. x \in Nat /\ q \in Nat /\ x < by * (q + 1)
    <2>1. x \in Nat
      BY <1>4
    <2> HIDE DEF x
    <2>2. q \in Int /\ q >= 0 /\ x = by * q + (x % by) /\ x % by \in 0 .. by - 1
      BY <1>1, <2>1
    <2> HIDE DEF q
    <2>3. by * (q + 1) = by * q + by
      BY <1>1, <2>2
    <2>4. by * q \in Int
      BY <1>1, <2>2
    <2> QED
      BY <1>1, <2>1, <2>2, <2>3, <2>4
  <1> HIDE DEF q
  <1>6. q >= n
    <2> SUFFICES ASSUME q < n PROVE FALSE
      BY <1>5
    <2>1. n - (q + 1) \in Nat
      BY <1>5
    <2>2. by * (n - (q + 1)) \in Nat /\ by * n = by * (q + 1) + by * (n - (q + 1)) /\ by * (q + 1) \in Int
      BY <1>1, <1>5, <2>1
    <2>3. n * by = by * n
      BY <1>1
    <2> QED
      BY <1>4, <1>5, <2>2, <2>3
  <1> QED
    BY <1>3, <1>5, <1>6 DEF q, x

(* Of finitely many numbers one is the largest. *)
LEMMA Biggest ==
  ASSUME NEW T, T \subseteq Nat, IsFiniteSet(T), T # {}
  PROVE  \E x \in T : \A y \in T : y <= x
  <1> DEFINE R == {p \in T \X T : p[1] < p[2]}
             n == Cardinality(T)
  <1>1. \A x, y \in T : <<x, y>> \in R <=> x < y
    OBVIOUS
  <1>2. Orders(R, T)
    <2> HIDE DEF R
    <2> QED
      BY <1>1 DEF Orders
  <1>3. n \in Nat /\ n # 0
    BY FS_CardinalityType, FS_EmptySet
  <1>4. n \in 1 .. Cardinality(T)
    BY <1>3
  <1> HIDE DEF R
  <1>5. PICK x \in T : Cardinality(Under(R, T, x)) = n - 1
    <2> HIDE DEF n
    <2> QED
      BY <1>2, <1>4, PlacesTaken, Zenon
  <1>6. Under(R, T, x) = T \ {x}
    <2>1. Under(R, T, x) \subseteq T \ {x}
      BY <1>2 DEF Under, Orders
    <2>2. IsFiniteSet(T \ {x}) /\ Cardinality(T \ {x}) = n - 1
      BY FS_RemoveElement
    <2> QED
      BY <1>5, <2>1, <2>2, FS_Subset
  <1>7. ASSUME NEW y \in T PROVE y <= x
    <2>1. x \in Nat /\ y \in Nat
      OBVIOUS
    <2>2. y # x => <<y, x>> \in R
      BY <1>6 DEF Under
    <2>3. y # x => y < x
      BY <1>1, <2>2
    <2> QED
      BY <2>1, <2>3
  <1> QED
    BY <1>7

(* The keys of a build, and a node of the tree over them. *)
KeysOK ==
  /\ keys \in Seq(Seq(Bytes)) /\ DOMAIN values = 1 .. Len(keys)
  /\ \A i \in 1 .. Len(keys) : values[i] \in Int
IsNode(ks, node) ==
  node.depth \in Nat /\ node.left \in 1 .. Len(ks) /\ node.right \in 1 .. Len(ks) + 1
AreNodes(ks, nodes) ==
  /\ DOMAIN nodes \subseteq Nat /\ DOMAIN nodes # {} /\ IsFiniteSet(DOMAIN nodes)
  /\ \A c \in DOMAIN nodes : IsNode(ks, nodes[c])

LEMMA CodesAre ==
  ASSUME NEW ks \in Seq(Seq(Bytes)), NEW node, IsNode(ks, node)
  PROVE  /\ Held(ks, node.left, node.right, node.depth) \subseteq 1 .. Len(ks)
         /\ \A i \in Held(ks, node.left, node.right, node.depth) : CodeOf(ks, i, node.depth) \in Nat
         /\ ChildCodes(ks, node) \subseteq Nat /\ IsFiniteSet(ChildCodes(ks, node))
  <1> DEFINE H == Held(ks, node.left, node.right, node.depth)
             code == [i \in H |-> CodeOf(ks, i, node.depth)]
  <1>1. Len(ks) \in Nat /\ node.left \in 1 .. Len(ks) /\ node.right \in 1 .. Len(ks) + 1 /\ node.depth \in Nat
    BY DEF IsNode
  <1>2. H \subseteq 1 .. Len(ks) /\ \A i \in H : Len(ks[i]) >= node.depth
    BY <1>1 DEF Held
  <1>3. ASSUME NEW i \in H PROVE CodeOf(ks, i, node.depth) \in Nat
    <2>1. ks[i] \in Seq(Bytes) /\ Len(ks[i]) \in Nat /\ Len(ks[i]) >= node.depth
      BY <1>2
    <2>2. CASE Len(ks[i]) = node.depth
      BY <2>2 DEF CodeOf
    <2>3. CASE Len(ks[i]) # node.depth
      <3>1. node.depth + 1 \in 1 .. Len(ks[i])
        BY <1>1, <2>1, <2>3
      <3>2. ks[i][node.depth + 1] \in Nat
        BY <2>1, <3>1, BytesAre
      <3> QED
        BY <2>3, <3>2 DEF CodeOf
    <2> QED
      BY <2>2, <2>3
  <1> HIDE DEF H
  <1>4. IsFiniteSet(H)
    <2>1. 1 \in Int /\ Len(ks) \in Int
      BY <1>1
    <2>2. IsFiniteSet(1 .. Len(ks))
      BY <2>1, FS_Interval
    <2> QED
      BY <1>2, <2>2, FS_Subset, Zenon
  <1>5. ChildCodes(ks, node) = {code[i] : i \in H}
    BY DEF ChildCodes, H
  <1>6. IsFiniteSet({code[i] : i \in H})
    <2>1. code \in Surjection(H, {code[i] : i \in H})
      BY DEF Surjection
    <2> HIDE DEF code
    <2> QED
      BY <1>4, <2>1, FS_Surjection
  <1>7. {code[i] : i \in H} \subseteq Nat
    BY <1>3
  <1> QED
    BY <1>2, <1>3, <1>5, <1>6, <1>7 DEF H

(* The children of a node are nodes. *)
LEMMA ChildrenAre ==
  ASSUME NEW ks \in Seq(Seq(Bytes)), NEW node, IsNode(ks, node), ChildCodes(ks, node) # {}
  PROVE  AreNodes(ks, Children(ks, node))
  <1> DEFINE H == Held(ks, node.left, node.right, node.depth)
             C == Children(ks, node)
  <1>1. H \subseteq 1 .. Len(ks) /\ ChildCodes(ks, node) \subseteq Nat /\ IsFiniteSet(ChildCodes(ks, node))
    BY CodesAre
  <1>2. ASSUME NEW P, P \subseteq H, P # {} PROVE \E i \in P : \A j \in P : i <= j
    <2>1. P \subseteq Nat
      BY <1>1, <1>2
    <2> QED
      BY <1>2, <2>1, Smallest, Zenon
  <1>3. ASSUME NEW code \in ChildCodes(ks, node) PROVE IsNode(ks, Child(ks, node, code))
    <2> DEFINE P == {i \in H : CodeOf(ks, i, node.depth) = code}
               Q == {i \in H : CodeOf(ks, i, node.depth) > code}
               left == CHOOSE i \in H : CodeOf(ks, i, node.depth) = code
                                        /\ \A j \in H : CodeOf(ks, j, node.depth) = code => i <= j
               behind == CHOOSE i \in H : CodeOf(ks, i, node.depth) > code
                                          /\ \A j \in H : CodeOf(ks, j, node.depth) > code => i <= j
    <2>1. Child(ks, node, code) =
            [depth |-> node.depth + 1, left |-> left,
             right |-> IF \E i \in H : CodeOf(ks, i, node.depth) > code THEN behind ELSE node.right]
      BY DEF Child
    <2> HIDE DEF H
    <2>2. left \in H
      <3>1. P # {}
        BY <1>3 DEF ChildCodes, H
      <3>2. \E i \in P : \A j \in P : i <= j
        <4>1. P \subseteq H
          OBVIOUS
        <4> HIDE DEF P
        <4> QED
          BY <1>2, <3>1, <4>1
      <3>3. \E i \in H : CodeOf(ks, i, node.depth) = code
                         /\ \A j \in H : CodeOf(ks, j, node.depth) = code => i <= j
        BY <3>2
      <3> QED
        BY <3>3
    <2>3. ASSUME \E i \in H : CodeOf(ks, i, node.depth) > code PROVE behind \in H
      <3>1. Q # {}
        BY <2>3
      <3>2. \E i \in Q : \A j \in Q : i <= j
        <4>1. Q \subseteq H
          OBVIOUS
        <4> HIDE DEF Q
        <4> QED
          BY <1>2, <3>1, <4>1
      <3>3. \E i \in H : CodeOf(ks, i, node.depth) > code
                         /\ \A j \in H : CodeOf(ks, j, node.depth) > code => i <= j
        BY <3>2
      <3> QED
        BY <3>3
    <2> HIDE DEF left, behind
    <2>4. Len(ks) \in Nat /\ node.depth \in Nat /\ node.right \in 1 .. Len(ks) + 1
      BY DEF IsNode
    <2>5. left \in 1 .. Len(ks)
      BY <1>1, <2>2
    <2>6. ASSUME \E i \in H : CodeOf(ks, i, node.depth) > code PROVE behind \in 1 .. Len(ks) + 1
      <3>1. behind \in 1 .. Len(ks)
        BY <1>1, <2>3, <2>6, Zenon
      <3> QED
        BY <2>4, <3>1
    <2> QED
      BY <2>1, <2>4, <2>5, <2>6 DEF IsNode
  <1>4. C = [code \in ChildCodes(ks, node) |-> Child(ks, node, code)]
    BY DEF Children
  <1> HIDE DEF C
  <1> QED
    BY <1>1, <1>3, <1>4 DEF AreNodes, C

(* A call of insert. *)
FrameFields == {"siblings", "low", "pos", "nonzero_num", "first", "begin", "done"}
FrameOK(ks, f) ==
  /\ FrameFields \subseteq DOMAIN f /\ AreNodes(ks, f.siblings)
  /\ f.low \in Nat /\ f.pos \in Nat /\ f.low <= f.pos /\ f.begin \in Nat
  /\ f.done \subseteq DOMAIN f.siblings

LEMMA CallOK ==
  ASSUME NEW ks, NEW nodes, AreNodes(ks, nodes), NEW n \in Nat
  PROVE  FrameOK(ks, Call(nodes, n)) /\ Call(nodes, n).done = {}
  <1> DEFINE low == CHOOSE c \in DOMAIN nodes : \A d \in DOMAIN nodes : c <= d
             f == Call(nodes, n)
  <1>1. \E c \in DOMAIN nodes : \A d \in DOMAIN nodes : c <= d
    BY Smallest DEF AreNodes
  <1>2. low \in Nat
    BY <1>1 DEF AreNodes
  <1>3. f = [siblings |-> nodes, low |-> low, pos |-> Larger(low + 1, n) - 1,
             nonzero_num |-> 0, first |-> TRUE, begin |-> 0, done |-> {}]
    BY DEF Call
  <1> HIDE DEF low, f
  <1>4. Larger(low + 1, n) - 1 \in Nat /\ low <= Larger(low + 1, n) - 1
    BY <1>2 DEF Larger
  <1>5. FrameFields \subseteq DOMAIN f
    BY <1>3 DEF FrameFields
  <1>6. f.siblings = nodes /\ f.low = low /\ f.pos = Larger(low + 1, n) - 1 /\ f.begin = 0 /\ f.done = {}
    BY <1>3
  <1> QED
    BY <1>2, <1>4, <1>5, <1>6 DEF FrameOK, f

(* The next child of a call that is not done. *)
LEMMA NextIs ==
  ASSUME NEW ks, NEW f, FrameOK(ks, f), f.done # DOMAIN f.siblings
  PROVE  NextChild(f) \in DOMAIN f.siblings /\ NextChild(f) \in Nat /\ IsNode(ks, f.siblings[NextChild(f)])
  <1> DEFINE S == DOMAIN f.siblings \ f.done
  <1>1. S # {} /\ S \subseteq Nat
    BY DEF FrameOK, AreNodes
  <1>2. \E c \in S : \A d \in S : c <= d
    <2> HIDE DEF S
    <2> QED
      BY <1>1, Smallest, Zenon
  <1>3. NextChild(f) \in S
    BY <1>2 DEF NextChild
  <1> QED
    BY <1>3 DEF FrameOK, AreNodes

LEMMA HighIs ==
  ASSUME NEW ks, NEW f, FrameOK(ks, f) PROVE High(f) \in Nat
  <1>1. \E c \in DOMAIN f.siblings : \A d \in DOMAIN f.siblings : d <= c
    BY Biggest DEF FrameOK, AreNodes
  <1>2. High(f) \in DOMAIN f.siblings
    BY <1>1 DEF High
  <1> QED
    BY <1>2 DEF FrameOK, AreNodes

(* The calls of insert: all but the innermost have a child to go on with. *)
StackOK(ks, s) ==
  /\ \E S : s \in Seq(S) /\ \A f \in S : FrameOK(ks, f)
  /\ \A i \in 2 .. Len(s) : s[i].done # DOMAIN s[i].siblings

LEMMA Joined ==
  ASSUME NEW S, NEW s \in Seq(S), NEW t \in Seq(S)
  PROVE  /\ s \o t \in Seq(S) /\ Len(s \o t) = Len(s) + Len(t)
         /\ \A i \in 1 .. Len(s) : (s \o t)[i] = s[i]
         /\ \A i \in 1 .. Len(t) : (s \o t)[Len(s) + i] = t[i]
  OBVIOUS

LEMMA InFront ==
  ASSUME NEW S, NEW s \in Seq(S), NEW g
  PROVE  /\ <<g>> \o s \in Seq(S \cup {g}) /\ Len(<<g>> \o s) = Len(s) + 1
         /\ (<<g>> \o s)[1] = g
         /\ \A i \in 2 .. Len(s) + 1 : (<<g>> \o s)[i] = s[i - 1]
  <1>1. s \in Seq(S \cup {g}) /\ <<g>> \in Seq(S \cup {g}) /\ Len(<<g>>) = 1 /\ <<g>>[1] = g /\ Len(s) \in Nat
    OBVIOUS
  <1>2. PICK o : o = <<g>>
    BY Zenon
  <1>3. o \in Seq(S \cup {g}) /\ Len(o) = 1 /\ o[1] = g
    BY <1>1, <1>2
  <1>4. /\ o \o s \in Seq(S \cup {g}) /\ Len(o \o s) = Len(o) + Len(s)
        /\ \A i \in 1 .. Len(o) : (o \o s)[i] = o[i]
        /\ \A i \in 1 .. Len(s) : (o \o s)[Len(o) + i] = s[i]
    BY <1>1, <1>3, Joined
  <1> DEFINE r == o \o s
  <1>7. Len(r) = Len(s) + 1 /\ r[1] = o[1] /\ \A i \in 1 .. Len(s) : r[1 + i] = s[i]
    BY <1>1, <1>3, <1>4
  <1> HIDE DEF r
  <1>5. ASSUME NEW i \in 2 .. Len(s) + 1 PROVE r[i] = s[i - 1]
    <2>1. i - 1 \in 1 .. Len(s) /\ 1 + (i - 1) = i
      BY <1>1
    <2> QED
      BY <1>7, <2>1
  <1>6. /\ r \in Seq(S \cup {g}) /\ Len(r) = Len(s) + 1 /\ r[1] = g
        /\ \A i \in 2 .. Len(s) + 1 : r[i] = s[i - 1]
    BY <1>3, <1>4, <1>5, <1>7 DEF r
  <1> QED
    BY <1>2, <1>6 DEF r

LEMMA BehindTwo ==
  ASSUME NEW S, NEW s \in Seq(S), NEW n, n = Len(s), n >= 2
  PROVE  LET t == SubSeq(s, 3, n)
         IN  t \in Seq(S) /\ Len(t) = n - 2 /\ \A i \in 1 .. n - 2 : t[i] = s[i + 2]
  OBVIOUS

LEMMA StackTop ==
  ASSUME NEW ks, NEW s, StackOK(ks, s), s # <<>>
  PROVE  /\ FrameOK(ks, Head(s)) /\ Len(s) \in Nat /\ Len(s) > 0
         /\ Len(s) > 1 => FrameOK(ks, s[2]) /\ s[2].done # DOMAIN s[2].siblings
  <1>1. PICK S : s \in Seq(S) /\ \A f \in S : FrameOK(ks, f)
    BY DEF StackOK
  <1>2. Head(s) \in S /\ Len(s) \in Nat /\ Len(s) > 0 /\ (Len(s) > 1 => s[2] \in S)
    BY <1>1
  <1> QED
    BY <1>1, <1>2 DEF StackOK

(* A changed innermost call, a new one, and the return of one. *)
LEMMA StackReplaced ==
  ASSUME NEW ks, NEW s, StackOK(ks, s), s # <<>>, NEW g, FrameOK(ks, g)
  PROVE  StackOK(ks, <<g>> \o Tail(s)) /\ <<g>> \o Tail(s) # <<>>
  <1>1. PICK S : s \in Seq(S) /\ \A f \in S : FrameOK(ks, f)
    BY DEF StackOK
  <1> DEFINE t == Tail(s)
             o == <<g>> \o t
  <1>2. t \in Seq(S) /\ Len(t) = Len(s) - 1 /\ Len(s) \in Nat /\ \A i \in 1 .. Len(s) - 1 : t[i] = s[i + 1]
    BY <1>1
  <1> HIDE DEF t
  <1>3. /\ o \in Seq(S \cup {g}) /\ Len(o) = Len(t) + 1
        /\ \A i \in 2 .. Len(t) + 1 : o[i] = t[i - 1]
    BY <1>2, InFront
  <1> HIDE DEF o
  <1>4. \A i \in 2 .. Len(o) : o[i] = s[i]
    BY <1>2, <1>3
  <1>5. Len(o) = Len(s) /\ o # <<>>
    BY <1>2, <1>3
  <1>6. \A i \in 2 .. Len(o) : o[i].done # DOMAIN o[i].siblings
    BY <1>4, <1>5 DEF StackOK
  <1>7. \A f \in S \cup {g} : FrameOK(ks, f)
    BY <1>1
  <1>8. StackOK(ks, o)
    BY <1>3, <1>6, <1>7 DEF StackOK
  <1> QED
    BY <1>5, <1>8 DEF o, t

LEMMA StackPushed ==
  ASSUME NEW ks, NEW s, StackOK(ks, s), s # <<>>, Head(s).done # DOMAIN Head(s).siblings,
         NEW g, FrameOK(ks, g)
  PROVE  StackOK(ks, <<g>> \o s) /\ <<g>> \o s # <<>>
  <1>1. PICK S : s \in Seq(S) /\ \A f \in S : FrameOK(ks, f)
    BY DEF StackOK
  <1> DEFINE o == <<g>> \o s
  <1>2. Len(s) \in Nat /\ Len(s) > 0 /\ Head(s) = s[1]
    BY <1>1
  <1>3. /\ o \in Seq(S \cup {g}) /\ Len(o) = Len(s) + 1
        /\ \A i \in 2 .. Len(s) + 1 : o[i] = s[i - 1]
    BY <1>1, InFront
  <1> HIDE DEF o
  <1>4. ASSUME NEW i \in 2 .. Len(o) PROVE o[i].done # DOMAIN o[i].siblings
    <2>1. o[i] = s[i - 1] /\ (i - 1 = 1 \/ i - 1 \in 2 .. Len(s))
      BY <1>2, <1>3
    <2> QED
      BY <1>2, <2>1 DEF StackOK
  <1>5. \A f \in S \cup {g} : FrameOK(ks, f)
    BY <1>1
  <1>6. StackOK(ks, o)
    BY <1>3, <1>4, <1>5 DEF StackOK
  <1>7. o # <<>>
    BY <1>2, <1>3
  <1> QED
    BY <1>6, <1>7 DEF o

LEMMA StackPopped ==
  ASSUME NEW ks, NEW s, StackOK(ks, s), Len(s) \in Nat, Len(s) > 1, NEW g, FrameOK(ks, g)
  PROVE  StackOK(ks, <<g>> \o SubSeq(s, 3, Len(s))) /\ <<g>> \o SubSeq(s, 3, Len(s)) # <<>>
  <1>1. PICK S : s \in Seq(S) /\ \A f \in S : FrameOK(ks, f)
    BY DEF StackOK
  <1> DEFINE t == SubSeq(s, 3, Len(s))
             o == <<g>> \o t
  <1>2. t \in Seq(S) /\ Len(t) = Len(s) - 2 /\ \A i \in 1 .. Len(s) - 2 : t[i] = s[i + 2]
    <2>1. Len(s) >= 2
      OBVIOUS
    <2> HIDE DEF t
    <2>2. t = SubSeq(s, 3, Len(s))
      BY DEF t
    <2> QED
      BY <1>1, <2>1, <2>2, BehindTwo, Zenon
  <1> HIDE DEF t
  <1>3. /\ o \in Seq(S \cup {g}) /\ Len(o) = Len(t) + 1
        /\ \A i \in 2 .. Len(t) + 1 : o[i] = t[i - 1]
    BY <1>2, InFront
  <1> HIDE DEF o
  <1>4. ASSUME NEW i \in 2 .. Len(o) PROVE o[i].done # DOMAIN o[i].siblings
    <2>1. o[i] = s[i + 1] /\ i + 1 \in 2 .. Len(s)
      BY <1>2, <1>3
    <2> QED
      BY <2>1 DEF StackOK
  <1>5. \A f \in S \cup {g} : FrameOK(ks, f)
    BY <1>1
  <1>6. StackOK(ks, o)
    BY <1>3, <1>4, <1>5 DEF StackOK
  <1>7. o # <<>>
    BY <1>2, <1>3
  <1> QED
    BY <1>6, <1>7 DEF o, t

LEMMA StackOfOne ==
  ASSUME NEW ks, NEW g, FrameOK(ks, g) PROVE StackOK(ks, <<g>>) /\ <<g>> # <<>>
  <1> DEFINE o == <<g>>
  <1>1. o \in Seq({g}) /\ Len(o) = 1 /\ o # <<>>
    OBVIOUS
  <1> HIDE DEF o
  <1>2. \A i \in 2 .. Len(o) : o[i].done # DOMAIN o[i].siblings
    BY <1>1
  <1>3. \A f \in {g} : FrameOK(ks, f)
    OBVIOUS
  <1>4. \E S : o \in Seq(S) /\ \A f \in S : FrameOK(ks, f)
    BY <1>1, <1>3
  <1>5. StackOK(ks, o)
    BY <1>2, <1>4 DEF StackOK
  <1> QED
    BY <1>1, <1>5 DEF o

(* The array between the steps. *)
ArrayOK ==
  /\ phase \in {"idle", "insert", "built", "failed"}
  /\ \E n \in Nat : ArrayIs(array, n)
  /\ size \in Nat /\ next_check_pos \in Nat /\ progress \in Nat
  /\ phase = "insert" => KeysOK /\ stack # <<>> /\ StackOK(keys, stack)
(* No cell of a node is given away. *)
Kept ==
  \A p \in DOMAIN array : array[p].check # 0 => p \in DOMAIN array' /\ array'[p].check = array[p].check

LEMMA NoArray == ArrayIs(<<>>, 0)
  <1>1. <<>> = [p \in {} |-> Empty] /\ 0 .. 0 - 1 = {}
    OBVIOUS
  <1>2. <<>> \in [{} -> Cell]
    BY <1>1
  <1> QED
    BY <1>1, <1>2 DEF ArrayIs

LEMMA ResizedIs ==
  ASSUME NEW a, NEW m, ArrayIs(a, m), NEW n \in Nat
  PROVE  /\ ArrayIs(Resize(a, n), n)
         /\ n >= m => \A p \in DOMAIN a : p \in DOMAIN Resize(a, n) /\ Resize(a, n)[p] = a[p]
  <1>1. DOMAIN a = 0 .. m - 1 /\ m \in Nat /\ \A p \in 0 .. m - 1 : a[p] \in Cell
    BY DEF ArrayIs
  <1>2. Empty \in Cell
    BY DEF Empty, Cell
  <1> DEFINE r == [p \in 0 .. n - 1 |-> IF p \in DOMAIN a THEN a[p] ELSE Empty]
  <1>3. Resize(a, n) = r
    BY DEF Resize
  <1>4. \A p \in 0 .. n - 1 : r[p] \in Cell
    BY <1>1, <1>2
  <1>5. r \in [0 .. n - 1 -> Cell]
    BY <1>4
  <1>6. ASSUME n >= m, NEW p \in DOMAIN a PROVE p \in DOMAIN r /\ r[p] = a[p]
    <2>1. p \in 0 .. n - 1
      BY <1>1, <1>6
    <2> QED
      BY <2>1
  <1> HIDE DEF r
  <1> QED
    BY <1>3, <1>5, <1>6 DEF ArrayIs

LEMMA BaseWritten ==
  ASSUME NEW a, NEW n, ArrayIs(a, n), NEW p, NEW b \in Int, NEW r, r = [a EXCEPT ![p].base = b]
  PROVE  /\ ArrayIs(r, n)
         /\ \A q \in DOMAIN a : q \in DOMAIN r /\ r[q].check = a[q].check
  <1>1. DOMAIN a = 0 .. n - 1 /\ n \in Nat /\ \A q \in 0 .. n - 1 : a[q] \in Cell
    BY DEF ArrayIs
  <1>2. DOMAIN r = 0 .. n - 1 /\ r = [q \in 0 .. n - 1 |-> r[q]]
        /\ \A q \in 0 .. n - 1 : r[q] = IF q = p THEN [a[q] EXCEPT !.base = b] ELSE a[q]
    BY <1>1, Zenon
  <1>3. ASSUME NEW q \in 0 .. n - 1 PROVE r[q] \in Cell /\ r[q].check = a[q].check
    <2>1. a[q] \in [base : Int, check : Nat]
      BY <1>1 DEF Cell
    <2>2. [a[q] EXCEPT !.base = b] \in [base : Int, check : Nat] /\ [a[q] EXCEPT !.base = b].check = a[q].check
      BY <2>1
    <2> QED
      BY <1>1, <1>2, <2>2 DEF Cell
  <1>4. r \in [0 .. n - 1 -> Cell]
    BY <1>2, <1>3, Zenon
  <1> QED
    BY <1>1, <1>2, <1>3, <1>4 DEF ArrayIs

LEMMA BaseSet ==
  ASSUME NEW n, ArrayIs(array, n), NEW p, NEW b \in Int, array' = [array EXCEPT ![p].base = b]
  PROVE  ArrayIs(array', n) /\ Kept
  <1>1. PICK r, a : r = array' /\ a = array
    OBVIOUS
  <1>2. r = [a EXCEPT ![p].base = b] /\ ArrayIs(a, n)
    BY <1>1
  <1>3. ArrayIs(r, n)
    BY <1>2, BaseWritten, Zenon
  <1>4. \A q \in DOMAIN a : q \in DOMAIN r /\ r[q].check = a[q].check
    BY <1>2, BaseWritten
  <1> QED
    BY <1>1, <1>3, <1>4 DEF Kept

LEMMA FrameMoved ==
  ASSUME NEW ks, NEW f, FrameOK(ks, f), NEW p \in Nat, f.low <= p, NEW b \in Nat, NEW x, NEW y
  PROVE  FrameOK(ks, [f EXCEPT !.pos = p, !.begin = b, !.first = x, !.nonzero_num = y])
  <1> DEFINE g == [f EXCEPT !.pos = p, !.begin = b, !.first = x, !.nonzero_num = y]
  <1>1. FrameFields \subseteq DOMAIN f
    BY DEF FrameOK
  <1>2. /\ DOMAIN g = DOMAIN f /\ g.pos = p /\ g.begin = b
        /\ g.siblings = f.siblings /\ g.low = f.low /\ g.done = f.done
    BY <1>1 DEF FrameFields
  <1> HIDE DEF g
  <1> QED
    BY <1>2 DEF FrameOK, g

LEMMA FrameDone ==
  ASSUME NEW ks, NEW f, FrameOK(ks, f), NEW c \in DOMAIN f.siblings
  PROVE  FrameOK(ks, [f EXCEPT !.done = @ \cup {c}])
  <1> DEFINE g == [f EXCEPT !.done = @ \cup {c}]
  <1>1. FrameFields \subseteq DOMAIN f
    BY DEF FrameOK
  <1>2. /\ DOMAIN g = DOMAIN f /\ g.done = f.done \cup {c} /\ g.pos = f.pos /\ g.begin = f.begin
        /\ g.siblings = f.siblings /\ g.low = f.low
    BY <1>1 DEF FrameFields
  <1> HIDE DEF g
  <1> QED
    BY <1>2 DEF FrameOK, g

(* Where the children are marked, no cell had a node. *)
LEMMA Marked ==
  ASSUME NEW a, NEW m, ArrayIs(array, m), NEW n \in Nat, n >= m, NEW begin \in Nat, NEW C,
         \A c \in C : CellAt(begin + c).check = 0,
         a = [p \in 0 .. n - 1 |->
                IF p - begin \in C THEN [CellAt(p) EXCEPT !.check = begin] ELSE CellAt(p)]
  PROVE  /\ ArrayIs(a, n)
         /\ \A p \in DOMAIN array : array[p].check # 0 => p \in DOMAIN a /\ a[p].check = array[p].check
  <1>1. DOMAIN array = 0 .. m - 1 /\ m \in Nat /\ alloc = m /\ \A q \in 0 .. m - 1 : array[q] \in Cell
    BY AllocIs DEF ArrayIs
  <1>2. ASSUME NEW p \in 0 .. n - 1 PROVE CellAt(p) \in Cell /\ (p \in DOMAIN array => CellAt(p) = array[p])
    <2>1. Empty \in Cell
      BY DEF Empty, Cell
    <2> QED
      BY <1>1, <2>1 DEF CellAt
  <1>3. ASSUME NEW p \in 0 .. n - 1 PROVE a[p] \in Cell
    <2>1. CellAt(p) \in [base : Int, check : Nat]
      BY <1>2 DEF Cell
    <2>2. [CellAt(p) EXCEPT !.check = begin] \in [base : Int, check : Nat]
      BY <2>1
    <2> QED
      BY <1>2, <2>2 DEF Cell
  <1>4. ASSUME NEW p \in DOMAIN array, array[p].check # 0
        PROVE  p \in 0 .. n - 1 /\ a[p] = array[p]
    <2>1. p \in 0 .. n - 1 /\ CellAt(p) = array[p] /\ p \in Int
      BY <1>1, <1>2
    <2>2. ASSUME p - begin \in C PROVE FALSE
      <3>1. begin + (p - begin) = p
        BY <2>1
      <3> QED
        BY <1>4, <2>1, <2>2, <3>1
    <2> QED
      BY <2>1, <2>2
  <1>5. a \in [0 .. n - 1 -> Cell]
    BY <1>3
  <1> QED
    BY <1>4, <1>5, Zenon DEF ArrayIs

(* A turn of the search for a place. *)
LEMMA Probed ==
  ASSUME ArrayOK, Probe PROVE ArrayOK' /\ Kept
  <1> DEFINE f == Head(stack)
             pos == f.pos + 1
             free == CellAt(pos).check = 0
             begin == pos - f.low
             n == IF Grows(f) THEN Grown(RoomAt(f)) ELSE RoomAt(f)
             fits == free /\ Free(f, begin)
             start == IF free /\ f.first THEN pos ELSE next_check_pos
             g == [f EXCEPT !.pos = pos, !.begin = IF fits THEN begin ELSE 0,
                            !.first = f.first /\ ~free,
                            !.nonzero_num = IF free THEN f.nonzero_num ELSE f.nonzero_num + 1]
  <1>1. /\ phase = "insert" /\ UNCHANGED <<keys, values, progress, phase>>
        /\ Grows(f) => progress > 0
        /\ stack' = <<g>> \o Tail(stack)
        /\ fits => /\ array' = [p \in 0 .. n - 1 |->
                                  IF p - begin \in DOMAIN f.siblings
                                  THEN [CellAt(p) EXCEPT !.check = begin] ELSE CellAt(p)]
                   /\ size' = Larger(size, begin + High(f) + 1)
                   /\ next_check_pos' \in {pos, start}
        /\ ~fits => array' = Resize(array, n) /\ next_check_pos' = start /\ size' = size
    BY DEF Probe
  <1>2. /\ KeysOK /\ stack # <<>> /\ StackOK(keys, stack)
        /\ size \in Nat /\ next_check_pos \in Nat /\ progress \in Nat
    BY <1>1 DEF ArrayOK
  <1>3. FrameOK(keys, f)
    BY <1>2, StackTop
  <1>4. f.pos \in Nat /\ pos \in Nat /\ f.low <= pos /\ begin \in Nat /\ High(f) \in Nat
    BY <1>3, HighIs DEF FrameOK
  <1>5. PICK m : ArrayIs(array, m)
    BY DEF ArrayOK
  <1>6. n \in Nat /\ n >= m
    <2>1. m \in Nat /\ alloc = m
      BY <1>5, AllocIs, Zenon DEF ArrayIs
    <2>2. RoomAt(f) \in Nat /\ RoomAt(f) >= m
      BY <1>4, <2>1 DEF RoomAt, Larger
    <2>3. Len(keys) \in Nat
      BY <1>2 DEF KeysOK
    <2>4. ASSUME Grows(f) PROVE Grown(RoomAt(f)) \in Nat /\ Grown(RoomAt(f)) >= RoomAt(f)
      BY <1>1, <1>2, <2>2, <2>3, <2>4, GrownLarger
    <2> QED
      BY <2>1, <2>2, <2>4
  <1>7. StackOK(keys, stack') /\ stack' # <<>>
    <2> DEFINE b == IF fits THEN begin ELSE 0
    <2>1. b \in Nat
      BY <1>4
    <2> HIDE DEF b
    <2>2. g = [f EXCEPT !.pos = pos, !.begin = b, !.first = f.first /\ ~free,
                        !.nonzero_num = IF free THEN f.nonzero_num ELSE f.nonzero_num + 1]
      BY DEF b
    <2> HIDE DEF f, pos, free, g
    <2>3. FrameOK(keys, g)
      BY <1>3, <1>4, <2>1, <2>2, FrameMoved, Zenon
    <2> QED
      BY <1>1, <1>2, <2>3, StackReplaced
  <1>8. start \in Nat
    BY <1>2, <1>4
  <1> HIDE DEF g, start, n, pos
  <1>9. CASE fits
    <2>1. \A c \in DOMAIN f.siblings : CellAt(begin + c).check = 0
      BY <1>9 DEF Free
    <2> DEFINE C == DOMAIN f.siblings
    <2>4. array' = [p \in 0 .. n - 1 |->
                      IF p - begin \in C THEN [CellAt(p) EXCEPT !.check = begin] ELSE CellAt(p)]
      BY <1>1, <1>9
    <2>5. begin \in Nat /\ n \in Nat /\ n >= m /\ \A c \in C : CellAt(begin + c).check = 0
      BY <1>4, <1>6, <2>1
    <2> HIDE DEF fits, begin, f, C
    <2>2. ArrayIs(array', n) /\ Kept
      BY <1>5, <2>4, <2>5, Marked, Zenon DEF Kept
    <2>3. size' \in Nat /\ next_check_pos' \in Nat
      BY <1>1, <1>2, <1>4, <1>8, <1>9 DEF Larger
    <2> QED
      BY <1>1, <1>2, <1>6, <1>7, <2>2, <2>3 DEF ArrayOK, KeysOK
  <1>10. CASE ~fits
    <2> HIDE DEF fits, f
    <2>1. array' = Resize(array, n)
      BY <1>1, <1>10
    <2>2. ArrayIs(array', n) /\ Kept
      BY <1>5, <1>6, <2>1, ResizedIs DEF Kept
    <2>3. size' \in Nat /\ next_check_pos' \in Nat
      BY <1>1, <1>2, <1>8, <1>10
    <2> QED
      BY <1>1, <1>2, <1>6, <1>7, <2>2, <2>3 DEF ArrayOK, KeysOK
  <1> QED
    BY <1>9, <1>10

LEMMA Left ==
  ASSUME ArrayOK, Leaf PROVE ArrayOK' /\ Kept
  <1> DEFINE f == Head(stack)
             c == NextChild(f)
             node == f.siblings[c]
             v == values[node.left]
             g == [f EXCEPT !.done = @ \cup {c}]
  <1>1. /\ phase = "insert" /\ f.done # DOMAIN f.siblings
        /\ array' = [array EXCEPT ![f.begin + c].base = - v - 1]
        /\ \/ phase' = "failed" /\ UNCHANGED progress
           \/ progress' = progress + 1 /\ stack' = <<g>> \o Tail(stack) /\ UNCHANGED phase
        /\ UNCHANGED <<keys, values, used, size, next_check_pos>>
    BY Zenon DEF Leaf
  <1>2. /\ KeysOK /\ stack # <<>> /\ StackOK(keys, stack)
        /\ size \in Nat /\ next_check_pos \in Nat /\ progress \in Nat
    BY <1>1 DEF ArrayOK
  <1>3. FrameOK(keys, f)
    BY <1>2, StackTop
  <1>4. c \in DOMAIN f.siblings /\ IsNode(keys, node)
    BY <1>1, <1>3, NextIs
  <1>5. v \in Int
    BY <1>2, <1>4 DEF KeysOK, IsNode
  <1>6. PICK m : ArrayIs(array, m)
    BY DEF ArrayOK
  <1>7. ArrayIs(array', m) /\ Kept
    <2> DEFINE p == f.begin + c
               b == - v - 1
    <2>1. b \in Int /\ array' = [array EXCEPT ![p].base = b]
      BY <1>1, <1>5
    <2> HIDE DEF p, b
    <2> QED
      BY <1>6, <2>1, BaseSet, Zenon
  <1>8. ASSUME stack' = <<g>> \o Tail(stack) PROVE StackOK(keys, stack') /\ stack' # <<>>
    <2> HIDE DEF f, c
    <2>1. FrameOK(keys, g)
      BY <1>3, <1>4, FrameDone
    <2> HIDE DEF g
    <2> QED
      BY <1>2, <1>8, <2>1, StackReplaced
  <1> HIDE DEF f, c, g, v, node
  <1>9. m \in Nat /\ progress' \in Nat
    BY <1>1, <1>2, <1>6 DEF ArrayIs
  <1> QED
    BY <1>1, <1>2, <1>7, <1>8, <1>9 DEF ArrayOK, KeysOK

LEMMA Entered1 ==
  ASSUME ArrayOK, Enter PROVE ArrayOK' /\ Kept
  <1> DEFINE f == Head(stack)
             node == f.siblings[NextChild(f)]
             g == Call(Children(keys, node), next_check_pos)
  <1>1. /\ phase = "insert" /\ f.done # DOMAIN f.siblings /\ ChildCodes(keys, node) # {}
        /\ \/ phase' = "failed"
           \/ stack' = <<g>> \o stack /\ UNCHANGED phase
        /\ UNCHANGED <<keys, values, array, used, size, next_check_pos, progress>>
    BY DEF Enter
  <1>2. /\ KeysOK /\ stack # <<>> /\ StackOK(keys, stack)
        /\ size \in Nat /\ next_check_pos \in Nat /\ progress \in Nat
        /\ \E n \in Nat : ArrayIs(array, n)
    BY <1>1 DEF ArrayOK
  <1>3. FrameOK(keys, f)
    BY <1>2, StackTop
  <1>4. IsNode(keys, node)
    BY <1>1, <1>3, NextIs
  <1>5. AreNodes(keys, Children(keys, node))
    <2> HIDE DEF node
    <2> QED
      BY <1>1, <1>2, <1>4, ChildrenAre DEF KeysOK
  <1>6. FrameOK(keys, g)
    <2> HIDE DEF node
    <2> QED
      BY <1>2, <1>5, CallOK
  <1>7. ASSUME stack' = <<g>> \o stack PROVE StackOK(keys, stack') /\ stack' # <<>>
    <2> HIDE DEF g
    <2> QED
      BY <1>1, <1>2, <1>6, <1>7, StackPushed
  <1> HIDE DEF f, g, node
  <1>8. Kept
    BY <1>1 DEF Kept
  <1> QED
    BY <1>1, <1>2, <1>7, <1>8 DEF ArrayOK, KeysOK

LEMMA Returned ==
  ASSUME ArrayOK, Return PROVE ArrayOK' /\ Kept
  <1> DEFINE f == Head(stack)
             s2 == stack[2]
             c == NextChild(s2)
             g == [s2 EXCEPT !.done = @ \cup {c}]
  <1>1. /\ phase = "insert"
        /\ Len(stack) > 1 =>
             /\ array' = [array EXCEPT ![s2.begin + c].base = f.begin]
             /\ stack' = <<g>> \o SubSeq(stack, 3, Len(stack))
             /\ UNCHANGED <<size, used, phase>>
        /\ ~(Len(stack) > 1) =>
             /\ size' = size + MaxByte + 2
             /\ array' = Resize(array, Larger(alloc, size')) /\ phase' = "built"
        /\ UNCHANGED <<keys, values, next_check_pos, progress>>
    BY Zenon DEF Return
  <1>2. /\ KeysOK /\ stack # <<>> /\ StackOK(keys, stack)
        /\ size \in Nat /\ next_check_pos \in Nat /\ progress \in Nat
    BY <1>1 DEF ArrayOK
  <1>3. PICK m : ArrayIs(array, m)
    BY DEF ArrayOK
  <1>4. /\ FrameOK(keys, f) /\ Len(stack) \in Nat
        /\ Len(stack) > 1 => FrameOK(keys, s2) /\ s2.done # DOMAIN s2.siblings
    BY <1>2, StackTop
  <1>5. m \in Nat /\ alloc = m /\ MaxByte \in Nat
    BY <1>3, AllocIs, ArrayConstants, Zenon DEF ArrayIs
  <1>6. CASE Len(stack) > 1
    <2>1. c \in DOMAIN s2.siblings
      BY <1>4, <1>6, NextIs
    <2>2. ArrayIs(array', m) /\ Kept
      <3> DEFINE p == s2.begin + c
                 b == f.begin
      <3>1. b \in Int /\ array' = [array EXCEPT ![p].base = b]
        BY <1>1, <1>4, <1>6 DEF FrameOK
      <3> HIDE DEF p, b
      <3> QED
        BY <1>3, <3>1, BaseSet, Zenon
    <2>3. StackOK(keys, stack') /\ stack' # <<>>
      <3> HIDE DEF s2, c
      <3>1. FrameOK(keys, g)
        BY <1>4, <1>6, <2>1, FrameDone
      <3> HIDE DEF g
      <3>2. stack' = <<g>> \o SubSeq(stack, 3, Len(stack))
        BY <1>1, <1>6
      <3>3. StackOK(keys, <<g>> \o SubSeq(stack, 3, Len(stack))) /\ <<g>> \o SubSeq(stack, 3, Len(stack)) # <<>>
        BY <1>2, <1>4, <1>6, <3>1, StackPopped
      <3> QED
        BY <3>2, <3>3
    <2> HIDE DEF f, c, g, s2
    <2> QED
      BY <1>1, <1>2, <1>5, <1>6, <2>2, <2>3 DEF ArrayOK, KeysOK
  <1>7. CASE ~(Len(stack) > 1)
    <2> DEFINE n == Larger(alloc, size')
    <2>1. size' \in Nat /\ n \in Nat /\ n >= m /\ phase' = "built" /\ array' = Resize(array, n)
      BY <1>1, <1>2, <1>5, <1>7 DEF Larger
    <2> HIDE DEF n
    <2>2. ArrayIs(array', n) /\ Kept
      BY <1>3, <2>1, ResizedIs DEF Kept
    <2> QED
      BY <1>1, <1>2, <2>1, <2>2 DEF ArrayOK
  <1> QED
    BY <1>6, <1>7

(* What a step of the array leaves: itself in order, and every node's cell. *)
LEMMA ArrayStepKeeps ==
  ASSUME ArrayOK, ArrayStep PROVE ArrayOK' /\ Kept
  BY Probed, Left, Entered1, Returned DEF ArrayStep

LEMMA Cleared ==
  ASSUME ArrayClear \/ ArrayInit' PROVE ArrayOK'
  <1>1. /\ array' = <<>> /\ size' = 0 /\ next_check_pos' = 0 /\ progress' = 0 /\ phase' = "idle"
    BY DEF ArrayClear, ArrayInit
  <1>2. ArrayIs(array', 0)
    BY <1>1, NoArray
  <1> QED
    BY <1>1, <1>2 DEF ArrayOK

(* build over sorted keys and their values. *)
LEMMA Started ==
  ASSUME NEW ks, NEW vs, ks \in Seq(Seq(Bytes)), DOMAIN vs = 1 .. Len(ks),
         \A i \in 1 .. Len(ks) : vs[i] \in Int, Build(ks, vs)
  PROVE  ArrayOK'
  <1> DEFINE root == [depth |-> 0, left |-> 1, right |-> Len(ks) + 1]
             g == Call(Children(ks, root), 0)
             blank == Resize(<<>>, InitialAlloc)
  <1>1. /\ keys' = ks /\ values' = vs /\ size' = 0 /\ next_check_pos' = 0 /\ progress' = 0
        /\ ks = <<>> => array' = <<>> /\ phase' = "built"
        /\ ks # <<>> => /\ array' = [blank EXCEPT ![0].base = 1]
                        /\ \/ stack' = <<g>> /\ phase' = "insert"
                           \/ phase' = "failed"
    BY DEF Build
  <1>2. KeysOK'
    BY <1>1 DEF KeysOK
  <1>3. CASE ks = <<>>
    <2>1. ArrayIs(array', 0)
      BY <1>1, <1>3, NoArray
    <2> QED
      BY <1>1, <1>3, <2>1 DEF ArrayOK
  <1>4. CASE ks # <<>>
    <2>1. Len(ks) \in Nat /\ Len(ks) > 0
      BY <1>4
    <2>2. IsNode(ks, root)
      BY <2>1 DEF IsNode
    <2>3. ChildCodes(ks, root) # {}
      <3>1. ks[1] \in Seq(Bytes) /\ 1 \in root.left .. root.right - 1 /\ root.depth = 0
        BY <2>1
      <3>2. 1 \in Held(ks, root.left, root.right, root.depth)
        BY <3>1 DEF Held
      <3> QED
        BY <3>2 DEF ChildCodes
    <2>4. FrameOK(ks, g)
      <3> HIDE DEF root
      <3>1. AreNodes(ks, Children(ks, root))
        BY <2>2, <2>3, ChildrenAre
      <3> QED
        BY <3>1, CallOK
    <2> HIDE DEF g
    <2>5. StackOK(ks, <<g>>) /\ <<g>> # <<>>
      BY <2>4, StackOfOne
    <2>6. ArrayIs(blank, InitialAlloc) /\ InitialAlloc \in Nat
      BY NoArray, ResizedIs, Growing
    <2> HIDE DEF blank
    <2>7. ArrayIs(array', InitialAlloc)
      <3>1. PICK r : r = array'
        OBVIOUS
      <3>2. r = [blank EXCEPT ![0].base = 1] /\ 1 \in Int
        BY <1>1, <1>4, <3>1
      <3>3. ArrayIs(r, InitialAlloc)
        BY <2>6, <3>2, BaseWritten, Zenon
      <3> QED
        BY <3>1, <3>3
    <2> HIDE DEF root
    <2> QED
      BY <1>1, <1>2, <1>4, <2>5, <2>6, <2>7, Zenon DEF ArrayOK
  <1> QED
    BY <1>3, <1>4

(* The keys of a dictionary are its words, and each has a value. *)
LEMMA WordsAre ==
  ASSUME NEW dic, NEW lsize, NEW rsize, AreEntries(dic, lsize, rsize)
  PROVE  /\ WordsOf(dic) \in Seq(Seq(Bytes))
         /\ \A i \in 1 .. Len(WordsOf(dic)) : \E k \in DOMAIN dic : WordsOf(dic)[i] = dic[k].word
         /\ \A k \in DOMAIN dic : \E i \in 1 .. Len(WordsOf(dic)) : WordsOf(dic)[i] = dic[k].word
  <1> DEFINE D == DOMAIN dic
             W == {dic[i].word : i \in D}
             word == [i \in D |-> dic[i].word]
             R == {p \in W \X W : Below(p[1], p[2])}
             Place(i) == CHOOSE x \in W : Cardinality({y \in W : Below(y, x)}) = i - 1
             n == Cardinality(W)
  <1>1. D = 1 .. Len(dic) /\ Len(dic) \in Nat /\ \A i \in D : dic[i].word \in Seq(Bytes)
    <2>1. PICK S : dic \in Seq(S) /\ \A e \in S : e.word \in Seq(Bytes)
      BY DEF AreEntries
    <2> QED
      BY <2>1
  <1>2. IsFiniteSet(W)
    <2>1. 1 \in Int /\ Len(dic) \in Int
      BY <1>1
    <2>2. IsFiniteSet(D)
      BY <1>1, <2>1, FS_Interval
    <2>3. word \in Surjection(D, W)
      BY DEF Surjection
    <2> HIDE DEF D, W, word
    <2> QED
      BY <2>2, <2>3, FS_Surjection
  <1>3. W \subseteq Seq(Bytes)
    BY <1>1
  <1>4. Orders(R, W)
    <2>1. \A x, y \in W : <<x, y>> \in R <=> Below(x, y)
      <3> HIDE DEF W
      <3> QED
        OBVIOUS
    <2>2. \A x \in W : ~Below(x, x)
      BY <1>3, BelowStrict, BytesAre, Zenon
    <2>3. \A x, y \in W : x # y => Below(x, y) \/ Below(y, x)
      BY <1>3, WordsDiffer, BytesAre, Zenon
    <2>4. \A x, y, z \in W : Below(x, y) /\ Below(y, z) => Below(x, z)
      BY <1>3, BelowStrict, BytesAre
    <2> HIDE DEF R, W
    <2> QED
      BY <2>1, <2>2, <2>3, <2>4 DEF Orders
  <1>5. n \in Nat /\ (\A i \in 1 .. n : Place(i) \in W) /\ \A x \in W : \E i \in 1 .. n : Place(i) = x
    <2>1. \A x \in W : Under(R, W, x) = {y \in W : Below(y, x)}
      <3> HIDE DEF W
      <3> QED
        BY DEF Under
    <2> HIDE DEF R, W, n
    <2>2. /\ n \in Nat /\ \A i \in 1 .. n : \E x \in W : Cardinality(Under(R, W, x)) = i - 1
          /\ \A x \in W : Cardinality(Under(R, W, x)) \in 0 .. n - 1
          /\ \A x, y \in W : Cardinality(Under(R, W, x)) = Cardinality(Under(R, W, y)) => x = y
      BY <1>2, <1>4, Places DEF n
    <2>3. ASSUME NEW i \in 1 .. n PROVE Place(i) \in W /\ Cardinality(Under(R, W, Place(i))) = i - 1
      <3>1. PICK x \in W : Cardinality(Under(R, W, x)) = i - 1
        BY <2>2
      <3>2. Cardinality({y \in W : Below(y, x)}) = i - 1
        BY <2>1, <3>1
      <3>3. Place(i) \in W /\ Cardinality({y \in W : Below(y, Place(i))}) = i - 1
        BY <3>2
      <3> QED
        BY <2>1, <3>3
    <2>4. ASSUME NEW x \in W PROVE \E i \in 1 .. n : Place(i) = x
      <3> DEFINE i == Cardinality(Under(R, W, x)) + 1
      <3>1. i \in 1 .. n /\ i - 1 = Cardinality(Under(R, W, x))
        BY <2>2
      <3> HIDE DEF i, Place
      <3>2. Place(i) = x
        BY <2>2, <2>3, <3>1
      <3> QED
        BY <3>1, <3>2
    <2> HIDE DEF Place
    <2> QED
      BY <2>2, <2>3, <2>4
  <1>6. WordsOf(dic) = [i \in 1 .. n |-> Place(i)]
    BY DEF WordsOf, InOrder
  <1> HIDE DEF Place, n
  <1>7. WordsOf(dic) \in Seq(Seq(Bytes)) /\ Len(WordsOf(dic)) = n
    <2> HIDE DEF W
    <2> QED
      BY <1>3, <1>5, <1>6
  <1>8. ASSUME NEW i \in 1 .. n PROVE \E k \in DOMAIN dic : WordsOf(dic)[i] = dic[k].word
    <2>1. WordsOf(dic)[i] = Place(i)
      BY <1>6
    <2> QED
      BY <1>5, <2>1
  <1>9. ASSUME NEW k \in DOMAIN dic PROVE \E i \in 1 .. n : WordsOf(dic)[i] = dic[k].word
    <2>1. PICK i \in 1 .. n : Place(i) = dic[k].word
      BY <1>5
    <2> QED
      BY <1>6, <2>1
  <1> QED
    BY <1>7, <1>8, <1>9

LEMMA ValuesAre ==
  ASSUME NEW dic, NEW lsize, NEW rsize, AreEntries(dic, lsize, rsize)
  PROVE  /\ DOMAIN ValuesOf(dic) = 1 .. Len(WordsOf(dic))
         /\ \A i \in 1 .. Len(WordsOf(dic)) : ValuesOf(dic)[i] \in Int
  <1> DEFINE sorted == SortedDic(dic)
             words == WordsOf(dic)
  <1>1. /\ \A k \in DOMAIN dic : \E i \in DOMAIN sorted : sorted[i] = dic[k]
        /\ \E n \in Nat : DOMAIN sorted = 1 .. n
    BY SortedFrom
  <1>2. /\ DOMAIN words = 1 .. Len(words)
        /\ \A i \in 1 .. Len(words) : \E k \in DOMAIN dic : words[i] = dic[k].word
    <2>1. words \in Seq(Seq(Bytes)) /\ \A i \in 1 .. Len(words) : \E k \in DOMAIN dic : words[i] = dic[k].word
      BY WordsAre
    <2> HIDE DEF words
    <2> QED
      BY <2>1
  <1>3. ValuesOf(dic) = [i \in DOMAIN words |-> ValueOf(sorted, words[i])]
    BY DEF ValuesOf
  <1> HIDE DEF sorted, words
  <1>4. ASSUME NEW i \in 1 .. Len(words) PROVE ValueOf(sorted, words[i]) \in Int
    <2> DEFINE w == words[i]
               run == {j \in DOMAIN sorted : sorted[j].word = w}
               least == CHOOSE j \in run : \A k \in run : j <= k
    <2>1. ValueOf(sorted, w) = Cardinality(run) + (least - 1) * PackWidth
      BY DEF ValueOf
    <2>2. PICK n \in Nat : DOMAIN sorted = 1 .. n
      BY <1>1
    <2>3. run # {}
      BY <1>1, <1>2
    <2>4. run \subseteq Nat /\ run \subseteq 1 .. n
      BY <2>2
    <2>5. IsFiniteSet(run)
      <3>1. 1 \in Int /\ n \in Int
        BY <2>2
      <3>2. IsFiniteSet(1 .. n)
        BY <3>1, FS_Interval
      <3> HIDE DEF run
      <3> QED
        BY <2>4, <3>2, FS_Subset, Zenon
    <2>6. least \in Nat
      <3>1. \E j \in run : \A k \in run : j <= k
        <4> HIDE DEF run
        <4> QED
          BY <2>3, <2>4, Smallest, Zenon
      <3> HIDE DEF run
      <3> QED
        BY <2>4, <3>1, Zenon
    <2>7. Cardinality(run) \in Nat
      <3> HIDE DEF run
      <3> QED
        BY <2>5, FS_CardinalityType
    <2> HIDE DEF run, least
    <2>8. (least - 1) * PackWidth \in Int
      BY <2>6, PackAssumption
    <2> QED
      BY <2>1, <2>7, <2>8 DEF w
  <1> QED
    BY <1>2, <1>3, <1>4 DEF words

(* build over the words of the entries read. *)
LEMMA BuildStarts ==
  ASSUME NEW dic, NEW lsize, NEW rsize, AreEntries(dic, lsize, rsize),
         Build(WordsOf(dic), ValuesOf(dic))
  PROVE  ArrayOK'
  <1>1. WordsOf(dic) \in Seq(Seq(Bytes))
    BY WordsAre
  <1>2. /\ DOMAIN ValuesOf(dic) = 1 .. Len(WordsOf(dic))
        /\ \A i \in 1 .. Len(WordsOf(dic)) : ValuesOf(dic)[i] \in Int
    BY ValuesAre
  <1> QED
    BY <1>1, <1>2, Started

(* The array is empty between the dictionaries; it is built when the lines  *)
(* of one have been read and gave entries.                                 *)
BuiltAt ==
  /\ job = NoJob => phase = "idle"
  /\ job # NoJob => /\ job.built = (phase # "idle")
                    /\ phase # "idle" => job.failed = "" /\ job.files = <<>> /\ job.dic # <<>>
RunAt ==
  /\ outcome \in {"idle", "running", "true", "false", "died"} /\ pending \in BOOLEAN
  /\ outcome # "running" => plan = <<>>
  /\ runs \in 0 .. 2
TypeInv == WordsInv /\ ArrayOK /\ BuiltAt /\ RunAt

LEMMA ArraySame ==
  ASSUME UNCHANGED arrayVars
  PROVE  (ArrayOK => ArrayOK') /\ Kept /\ phase' = phase
  <1>1. UNCHANGED <<keys, values, array, size, next_check_pos, progress, stack, phase>>
    BY DEF arrayVars
  <1> QED
    BY <1>1 DEF ArrayOK, KeysOK, Kept

LEMMA StillBuilt ==
  ASSUME UNCHANGED <<job, phase>>, BuiltAt PROVE BuiltAt'
  BY Zenon DEF BuiltAt

(* The array with every step of a run. *)
LEMMA ArrayKept ==
  ASSUME TypeInv, [Next]_vars
  PROVE  /\ ArrayOK' /\ BuiltAt'
         /\ phase = "insert" /\ phase' # "idle" => Kept
  <1>0. WordsInv /\ JobAt /\ ArrayOK /\ BuiltAt
    BY DEF TypeInv, WordsInv
  <1>1. CASE Rest \/ Edit \/ Finish \/ Fill \/ WriteFails \/ Close \/ UNCHANGED vars
    <2>1. UNCHANGED <<job, arrayVars>>
      BY <1>1 DEF Rest, Edit, Finish, Fill, WriteFails, Close, vars, lexiconVars
    <2> QED
      BY <1>0, <2>1, ArraySame, StillBuilt
  <1>2. CASE Run("system") \/ Run("user")
    <2>1. outcome # "running" /\ UNCHANGED arrayVars /\ (job' = NoJob \/ UNCHANGED job)
      BY <1>2, Zenon DEF Run, Fails
    <2>2. job = NoJob
      BY <1>0, <2>1 DEF JobAt
    <2> QED
      BY <1>0, <2>1, <2>2, ArraySame, StillBuilt
  <1>3. CASE CompileCharBin \/ CompileMatrixBin
    <2> DEFINE def == OrDefault(source.char_def, CharDefDefault)
               table == CompileChar(def, {UnkDef[i].word : i \in DOMAIN UnkDef})
               m == CompileMatrix(OrDefault(source.matrix_def, MatrixDefDefault))
    <2>1. /\ Head(plan) \in {"char", "matrix"} /\ UNCHANGED arrayVars
          /\ job' = NoJob \/ UNCHANGED job
      <3>1. CASE CompileCharBin
        <4>1. /\ Head(plan) = "char" /\ UNCHANGED arrayVars
              /\ IF table = Dead THEN Fails("char.def") /\ UNCHANGED files
                 ELSE (Truncate(table.value) /\ UNCHANGED <<plan, job, outcome, why>>) \/ Denied
          BY <3>1 DEF CompileCharBin
        <4> HIDE DEF table
        <4> QED
          BY <4>1 DEF Denied, Fails
      <3>2. CASE CompileMatrixBin
        <4>1. /\ Head(plan) = "matrix" /\ UNCHANGED arrayVars
              /\ IF m = Dead THEN Fails("matrix.def") /\ UNCHANGED files
                 ELSE (Truncate(m.value) /\ UNCHANGED <<plan, job, outcome, why>>) \/ Denied
          BY <3>2, Zenon DEF CompileMatrixBin
        <4> HIDE DEF m
        <4> QED
          BY <4>1, Zenon DEF Denied, Fails
      <3> QED
        BY <1>3, <3>1, <3>2
    <2> HIDE DEF table, m
    <2>2. job = NoJob
      BY <1>0, <2>1 DEF JobAt, IsDic
    <2> QED
      BY <1>0, <2>1, <2>2, ArraySame, StillBuilt
  <1>4. CASE BeginDictionary
    <2>1. job = NoJob /\ UNCHANGED arrayVars
      BY <1>4, Zenon DEF BeginDictionary
    <2>2. job' = NoJob \/ job'.built = FALSE
      <3> DEFINE type == Head(plan)
                 csv == CASE type = "unk" -> <<UnkDef>> [] type = "sys" -> source.csv
                          [] OTHER -> <<source.user_csv>>
                 conf == BuildConf(IF type = "user" THEN "user" ELSE "system")
                 new == Job(type, LinesOf(csv), MatrixSizes(type), PosIdRules(SourceFile(type, "pos_id")),
                            Get(conf, "wakati", FALSE), Get(conf, "cost-factor", 0))
      <3>1. job' = NoJob \/ job' = new
        BY <1>4, Zenon DEF BeginDictionary, Fails
      <3>2. new.built = FALSE
        BY DEF Job
      <3> HIDE DEF new
      <3> QED
        BY <3>1, <3>2
    <2>3. phase' = "idle"
      BY <1>0, <2>1, ArraySame DEF BuiltAt
    <2> QED
      BY <1>0, <2>1, <2>2, <2>3, ArraySame, Zenon DEF BuiltAt
  <1>5. CASE ReadLines
    <2>1. job # NoJob /\ job.files # <<>> /\ UNCHANGED arrayVars
      BY <1>5, Zenon DEF ReadLines, ReadLine
    <2>2. job' # NoJob /\ job'.built = job.built
      BY <1>0, <1>5, LineCompiled
    <2>3. phase = "idle"
      BY <1>0, <2>1, Zenon DEF BuiltAt
    <2> QED
      BY <1>0, <2>1, <2>2, <2>3, ArraySame DEF BuiltAt
  <1>6. CASE LineFails \/ NoWord
    <2>1. /\ job # NoJob /\ (job.failed # "" \/ job.dic = <<>>) /\ job' = NoJob
          /\ UNCHANGED arrayVars
      BY <1>6, Zenon DEF LineFails, NoWord, Fails
    <2>2. phase = "idle"
      BY <1>0, <2>1, Zenon DEF BuiltAt
    <2> QED
      BY <1>0, <2>1, <2>2, ArraySame, Zenon DEF BuiltAt
  <1>7. CASE BuildArray
    <2>1. /\ job # NoJob /\ job.failed = "" /\ job.files = <<>> /\ job.dic # <<>>
          /\ Build(WordsOf(job.dic), ValuesOf(job.dic))
          /\ job' = [job EXCEPT !.built = TRUE]
      BY <1>7, Zenon DEF BuildArray, EndOfLines
    <2>2. IsJob(job)
      BY <1>0, <2>1, Zenon DEF JobAt
    <2>3. ArrayOK'
      BY <2>1, <2>2, BuildStarts, Zenon DEF IsJob
    <2>4. phase # "insert" /\ phase' # "idle"
      BY <2>1, Zenon DEF Build
    <2>5. job' # NoJob /\ job'.built = TRUE /\ job'.failed = "" /\ job'.files = <<>> /\ job'.dic # <<>>
      <3>1. {"lsize", "failed", "built", "files", "dic"} \subseteq DOMAIN job
        BY <2>2 DEF IsJob, WorkFields
      <3>2. "lsize" \in DOMAIN job' /\ "lsize" \notin DOMAIN NoJob
        BY <2>1, <3>1, Zenon DEF NoJob
      <3> QED
        BY <2>1, <3>1, <3>2, Zenon
    <2> QED
      BY <2>3, <2>4, <2>5, Zenon DEF BuiltAt
  <1>8. CASE InArray
    <2>1. ArrayStep /\ UNCHANGED job /\ job # NoJob
      BY <1>8 DEF InArray, lexiconVars
    <2>2. phase = "insert" /\ phase' \in {"insert", "failed", "built"}
      BY <2>1, Zenon DEF ArrayStep, Probe, Leaf, Enter, Return
    <2> QED
      BY <1>0, <2>1, <2>2, ArrayStepKeeps, Zenon DEF BuiltAt
  <1>9. CASE GrowFails \/ WriteDictionary \/ Crash
    <2>1. ArrayClear /\ job' = NoJob
      BY <1>9, Zenon DEF GrowFails, WriteDictionary, Crash, Denied, Fails
    <2>2. phase' = "idle"
      BY <2>1 DEF ArrayClear
    <2> QED
      BY <2>1, <2>2, Cleared DEF BuiltAt
  <1> QED
    BY <1>1, <1>2, <1>3, <1>4, <1>5, <1>6, <1>7, <1>8, <1>9 DEF Next

LEMMA RunAtStep ==
  ASSUME TypeInv, [Next]_vars PROVE RunAt'
  <1>0. RunAt
    BY DEF TypeInv
  <1>1. CASE Rest \/ UNCHANGED vars
    BY <1>0, <1>1 DEF Rest, vars, RunAt
  <1>2. CASE Run("system") \/ Run("user")
    <2>1. PICK kind : Run(kind)
      BY <1>2
    <2>2. /\ runs < MaxRuns /\ runs' = runs + 1
          /\ \/ outcome' = "false" /\ plan' = <<>> /\ pending' = FALSE
             \/ outcome' = "running" /\ UNCHANGED pending
      BY <2>1, Zenon DEF Run, Fails
    <2>3. MaxRuns \in {1, 2}
      BY DEF MaxRuns
    <2>4. runs' \in 0 .. 2
      BY <1>0, <2>2, <2>3 DEF RunAt
    <2>5. pending' \in BOOLEAN
      BY <1>0, <2>2, Zenon DEF RunAt
    <2> QED
      BY <2>2, <2>4, <2>5 DEF RunAt
  <1>3. CASE Edit \/ ReadLines \/ BuildArray \/ InArray
    BY <1>0, <1>3 DEF Edit, ReadLines, BuildArray, InArray, RunAt
  <1>4. CASE CompileCharBin
    <2> DEFINE def == OrDefault(source.char_def, CharDefDefault)
               table == CompileChar(def, {UnkDef[i].word : i \in DOMAIN UnkDef})
    <2>1. /\ UNCHANGED runs /\ Going
          /\ IF table = Dead THEN Fails("char.def") /\ UNCHANGED files
             ELSE (Truncate(table.value) /\ UNCHANGED <<plan, job, outcome, why>>) \/ Denied
      BY <1>4 DEF CompileCharBin
    <2> HIDE DEF table
    <2> QED
      BY <1>0, <2>1, Zenon DEF Denied, Fails, Truncate, Going, RunAt
  <1>5. CASE CompileMatrixBin
    <2> DEFINE m == CompileMatrix(OrDefault(source.matrix_def, MatrixDefDefault))
    <2>1. /\ UNCHANGED runs /\ Going
          /\ IF m = Dead THEN Fails("matrix.def") /\ UNCHANGED files
             ELSE (Truncate(m.value) /\ UNCHANGED <<plan, job, outcome, why>>) \/ Denied
      BY <1>5, Zenon DEF CompileMatrixBin
    <2> HIDE DEF m
    <2> QED
      BY <1>0, <2>1, Zenon DEF Denied, Fails, Truncate, Going, RunAt
  <1>6. CASE BeginDictionary
    <2>1. /\ UNCHANGED runs
          /\ \/ outcome' = "false" /\ plan' = <<>> /\ pending' = FALSE
             \/ UNCHANGED <<plan, pending, outcome>>
      BY <1>6, Zenon DEF BeginDictionary, Fails
    <2> QED
      BY <1>0, <2>1, Zenon DEF RunAt
  <1>7. CASE LineFails \/ NoWord \/ GrowFails \/ Crash \/ Finish
    <2>1. UNCHANGED runs /\ outcome' \in {"true", "false", "died"} /\ plan' = <<>>
      BY <1>7, Zenon DEF LineFails, NoWord, GrowFails, Crash, Finish, Fails
    <2>2. pending' = FALSE \/ UNCHANGED pending
      BY <1>7, Zenon DEF LineFails, NoWord, GrowFails, Crash, Finish, Fails
    <2>3. pending' \in BOOLEAN
      BY <1>0, <2>2, Zenon DEF RunAt
    <2> QED
      BY <1>0, <2>1, <2>3 DEF RunAt
  <1>8. CASE WriteDictionary
    <2>1. /\ UNCHANGED runs /\ Going
          /\ \/ Truncate(Binary) /\ UNCHANGED <<plan, outcome>>
             \/ Fails("permission denied")
      BY <1>8, Zenon DEF WriteDictionary, Denied
    <2> QED
      BY <1>0, <2>1, Zenon DEF Fails, Truncate, Going, RunAt
  <1>9. CASE Fill \/ WriteFails \/ Close
    <2>1. outcome = "running" /\ UNCHANGED <<runs, outcome>> /\ (pending' = FALSE \/ UNCHANGED pending)
      BY <1>9, Zenon DEF Fill, WriteFails, Close, Writing
    <2>2. pending' \in BOOLEAN
      BY <1>0, <2>1, Zenon DEF RunAt
    <2> QED
      BY <1>0, <2>1, <2>2 DEF RunAt
  <1> QED
    BY <1>1, <1>2, <1>3, <1>4, <1>5, <1>6, <1>7, <1>8, <1>9 DEF Next

LEMMA TypeInit ==
  ASSUME Init PROVE TypeInv
  <1>1. WordsInv
    <2>1. SourceOK /\ JobAt /\ ContentsOK
      BY Zenon DEF Init, SourceOK, JobAt, ContentsOK
    <2> QED
      BY <2>1, RunInit DEF WordsInv
  <1>2. ArrayOK /\ phase = "idle"
    <2>1. /\ array = <<>> /\ size = 0 /\ next_check_pos = 0 /\ progress = 0 /\ phase = "idle"
      BY Zenon DEF Init, ArrayInit
    <2>2. ArrayIs(array, 0)
      BY <2>1, NoArray
    <2> QED
      BY <2>1, <2>2 DEF ArrayOK
  <1>3. BuiltAt /\ RunAt
    <2>1. job = NoJob /\ outcome = "idle" /\ plan = <<>> /\ pending = FALSE /\ runs = 0
      BY Zenon DEF Init
    <2>2. pending \in BOOLEAN
      BY <2>1, Zenon
    <2> QED
      BY <1>2, <2>1, <2>2 DEF BuiltAt, RunAt
  <1> QED
    BY <1>1, <1>2, <1>3 DEF TypeInv

LEMMA TypeStep ==
  ASSUME TypeInv, [Next]_vars PROVE TypeInv'
  BY WordsStep, ArrayKept, RunAtStep DEF TypeInv

LEMMA TypesFrom ==
  ASSUME TypeInv PROVE TypeOK
  <1>0. WordsInv /\ RunOK /\ FilesOK /\ Numbered /\ Progress /\ JobAt /\ ArrayOK /\ BuiltAt /\ RunAt
    BY DEF TypeInv, WordsInv, RunOK
  <1>1. Range(plan) \subseteq Names
    <2>1. plan = <<>> \/ plan = <<"user">> \/ \E k \in 0 .. 4 : plan = Behind(k)
      BY <1>0 DEF RunAt, Progress, UserAt, SystemAt
    <2>2. ASSUME NEW k \in 0 .. 4 PROVE Range(Behind(k)) \subseteq Names
      <3>1. \A i \in 1 .. 4 - k : i + k \in 1 .. 4
        OBVIOUS
      <3>2. \A i \in DOMAIN Behind(k) : i \in 1 .. 4 - k /\ Behind(k)[i] = Order[i + k]
        BY DEF Behind
      <3>3. \A i \in DOMAIN Behind(k) : Behind(k)[i] \in Names
        BY <3>1, <3>2, OrderIs
      <3> QED
        BY <3>3 DEF Range
    <2>3. Range(<<>>) \subseteq Names /\ Range(<<"user">>) \subseteq Names
      BY DEF Range, Names
    <2> QED
      BY <2>1, <2>2, <2>3
  <1>2. \A f \in Names : files[f] # NoFile =>
          files[f].bytes \in 0 .. All /\ files[f].run \in 1 .. runs /\ files[f].bad \in BOOLEAN
    BY <1>0 DEF FilesOK, IsFile, Numbered
  <1>3. array \in [0 .. alloc - 1 -> Cell] /\ phase \in {"idle", "insert", "built", "failed"}
    <2>1. PICK n : ArrayIs(array, n)
      BY <1>0 DEF ArrayOK
    <2>2. alloc = n
      BY <2>1, AllocIs
    <2> QED
      BY <1>0, <2>1, <2>2 DEF ArrayOK, ArrayIs
  <1>4. ASSUME job # NoJob, NEW i \in DOMAIN job.dic
        PROVE  IsValid(job, job.dic[i].token.lc, job.dic[i].token.rc)
    <2>1. PICK S : /\ job.dic \in Seq(S)
                   /\ \A e \in S : e.token.lc \in 0 .. job.rsize - 1 /\ e.token.rc \in 0 .. job.lsize - 1
      BY <1>0, <1>4 DEF JobAt, IsJob, AreEntries
    <2>2. job.dic[i] \in S
      BY <1>4, <2>1
    <2> QED
      BY <2>1, <2>2 DEF IsValid
  <1> QED
    BY <1>0, <1>1, <1>2, <1>3, <1>4, Zenon DEF RunAt, BuiltAt, TypeOK

-----------------------------------------------------------------------------
(* The double array: the cells of a placed array are a trie over the keys,  *)
(* a walk in it finds the keys that begin a text, and a value leads to the  *)
(* tokens of its word.                                                     *)
(* One growth makes room for every code. *)
LEMMA GrownEnough ==
  ASSUME NEW n \in Nat, n >= InitialAlloc, progress \in Nat, progress > 0, Len(keys) \in Nat
  PROVE  Grown(n) \in Nat /\ Grown(n) >= n + MaxByte + 2
  <1> DEFINE more == Larger(GrowPercent * progress, 100 * Len(keys))
             by == 100 * progress
             m == n + MaxByte + 2
  <1>1. /\ InitialAlloc \in Nat /\ GrowPercent \in Nat /\ GrowPercent >= 100 /\ MaxByte \in Nat
        /\ InitialAlloc * GrowPercent >= 100 * (InitialAlloc + MaxByte + 2)
    BY Growing, ArrayConstants
  <1>2. n * GrowPercent >= 100 * m /\ n * GrowPercent \in Nat /\ m \in Nat
    <2>1. GrowPercent - 100 \in Nat /\ n - InitialAlloc \in Nat
      BY <1>1
    <2>2. (n - InitialAlloc) * (GrowPercent - 100) \in Nat
      BY <2>1
    <2>3. (n - InitialAlloc) * (GrowPercent - 100)
            = n * GrowPercent - 100 * n - InitialAlloc * GrowPercent + 100 * InitialAlloc
      BY <1>1
    <2>4. n * GrowPercent \in Nat /\ InitialAlloc * GrowPercent \in Nat
      BY <1>1
    <2> QED
      BY <1>1, <2>2, <2>3, <2>4
  <1>3. more \in Nat /\ more >= GrowPercent * progress /\ GrowPercent * progress \in Nat
    <2>1. GrowPercent * progress \in Nat /\ 100 * Len(keys) \in Nat
      BY <1>1
    <2> QED
      BY <2>1 DEF Larger
  <1>4. Grown(n) = (n * more) \div by
    BY DEF Grown
  <1> HIDE DEF more, m
  <1>5. n * more >= m * by /\ n * more \in Nat /\ m * by \in Nat /\ by \in Nat /\ by > 0
    <2>1. more - GrowPercent * progress \in Nat
      BY <1>3
    <2>2. n * (more - GrowPercent * progress) \in Nat
      BY <2>1
    <2>3. n * (more - GrowPercent * progress) = n * more - n * (GrowPercent * progress)
      BY <1>3
    <2>4. n * (GrowPercent * progress) = (n * GrowPercent) * progress
      BY <1>1
    <2> DEFINE g == n * GrowPercent
    <2>5. g - 100 * m \in Nat /\ g \in Nat
      BY <1>2
    <2> HIDE DEF g
    <2>6. (g - 100 * m) * progress \in Nat
      BY <2>5
    <2>7. (g - 100 * m) * progress = g * progress - (100 * m) * progress
      BY <1>2, <2>5
    <2>8. (100 * m) * progress = m * (100 * progress)
      BY <1>2
    <2>9. n * more \in Nat /\ g * progress \in Nat /\ m * (100 * progress) \in Nat
      BY <1>2, <1>3, <2>5
    <2> QED
      BY <2>2, <2>3, <2>4, <2>6, <2>7, <2>8, <2>9 DEF g
  <1> DEFINE x == n * more
             q == x \div by
  <1> HIDE DEF by
  <1>6. x \in Nat /\ q \in Nat /\ x < by * (q + 1)
    <2>1. x \in Nat
      BY <1>5
    <2> HIDE DEF x
    <2>2. q \in Int /\ q >= 0 /\ x = by * q + (x % by) /\ x % by \in 0 .. by - 1
      BY <1>5, <2>1
    <2> HIDE DEF q
    <2>3. by * (q + 1) = by * q + by
      BY <1>5, <2>2
    <2>4. by * q \in Int
      BY <1>5, <2>2
    <2> QED
      BY <1>5, <2>1, <2>2, <2>3, <2>4
  <1> HIDE DEF q
  <1>7. q >= m
    <2> SUFFICES ASSUME q < m PROVE FALSE
      BY <1>2, <1>6
    <2>1. m - (q + 1) \in Nat
      BY <1>2, <1>6
    <2>2. by * (m - (q + 1)) \in Nat /\ by * m = by * (q + 1) + by * (m - (q + 1)) /\ by * (q + 1) \in Int
      BY <1>2, <1>5, <1>6, <2>1
    <2>3. m * by = by * m
      BY <1>2, <1>5
    <2> QED
      BY <1>5, <1>6, <2>2, <2>3 DEF x
  <1> QED
    BY <1>4, <1>6, <1>7 DEF q, x, m

(* The keys are words of bytes, so no code is above MaxByte + 1. *)
InBytes(ks) == ks \in Seq(Seq(Bytes))

LEMMA CodesInside ==
  ASSUME NEW ks, InBytes(ks), NEW node, IsNode(ks, node)
  PROVE  /\ Held(ks, node.left, node.right, node.depth) \subseteq 1 .. Len(ks)
         /\ \A i \in Held(ks, node.left, node.right, node.depth) : CodeOf(ks, i, node.depth) \in Codes
         /\ ChildCodes(ks, node) \subseteq Codes /\ IsFiniteSet(ChildCodes(ks, node))
         /\ Codes \subseteq Nat
  <1> DEFINE H == Held(ks, node.left, node.right, node.depth)
  <1>1. /\ H \subseteq 1 .. Len(ks) /\ IsFiniteSet(ChildCodes(ks, node))
    BY CodesAre DEF InBytes
  <1>2. MaxByte \in Nat /\ Codes = 0 .. MaxByte + 1 /\ Bytes = 0 .. MaxByte
    BY ArrayConstants DEF Codes, Bytes
  <1>3. ASSUME NEW i \in H PROVE CodeOf(ks, i, node.depth) \in Codes
    <2>1. ks[i] \in Seq(Bytes) /\ Len(ks[i]) \in Nat /\ Len(ks[i]) >= node.depth /\ node.depth \in Nat
      BY <1>1 DEF InBytes, Held, IsNode
    <2>2. CASE Len(ks[i]) = node.depth
      BY <1>2, <2>2 DEF CodeOf
    <2>3. CASE Len(ks[i]) # node.depth
      <3>1. node.depth + 1 \in 1 .. Len(ks[i])
        BY <2>1, <2>3
      <3>2. ks[i][node.depth + 1] \in Bytes
        BY <2>1, <3>1
      <3> QED
        BY <1>2, <2>3, <3>2 DEF CodeOf
    <2> QED
      BY <2>2, <2>3
  <1>4. ChildCodes(ks, node) \subseteq Codes
    BY <1>3 DEF ChildCodes
  <1> QED
    BY <1>1, <1>2, <1>3, <1>4

(* N gives each base the node it was given to.  Every cell with a base as   *)
(* its check is that of a child of the node, and every child has its cell. *)
Root(ks) == [depth |-> 0, left |-> 1, right |-> Len(ks) + 1]
IsBranch(ks, node) == IsNode(ks, node) /\ Sorted(ks, node) /\ ChildCodes(ks, node) # {}
NodesOK(ks, N) == \A b \in DOMAIN N : b \in Nat /\ b > 0 /\ IsBranch(ks, N[b])
Inside(ks, N, n) == \A b \in DOMAIN N : \A c \in ChildCodes(ks, N[b]) : b + c < n
ChecksRight(ks, N, a) ==
  /\ \A p \in DOMAIN a : a[p].check = 0 \/ a[p].check \in DOMAIN N
  /\ \A b \in DOMAIN N : \A p \in DOMAIN a : a[p].check = b <=> p - b \in ChildCodes(ks, N[b])
BasesRight(N, a) ==
  a[0].base = 1 /\ \A p \in DOMAIN a : a[p].base > 0 => p = 0 \/ a[p].base \in DOMAIN N
Trie(ks, N, a, n) == NodesOK(ks, N) /\ Inside(ks, N, n) /\ ChecksRight(ks, N, a) /\ BasesRight(N, a)

(* A child that ends keys has the value, another one its own base. *)
RightAt(ks, vs, N, a, b, c) ==
  LET child == Child(ks, N[b], c)
  IN  IF ChildCodes(ks, child) = {} THEN vs[child.left] >= 0 /\ a[b + c].base = - vs[child.left] - 1
      ELSE a[b + c].base \in DOMAIN N /\ N[a[b + c].base] = child

(* The node a call of insert is for, and what is still to be done. *)
NodeAt(ks, s, i) == IF i = Len(s) THEN Root(ks) ELSE s[i + 1].siblings[NextChild(s[i + 1])]
CallRight(ks, N, s, i) ==
  /\ IsBranch(ks, NodeAt(ks, s, i)) /\ s[i].siblings = Children(ks, NodeAt(ks, s, i))
  /\ IF s[i].begin = 0 THEN i = 1 /\ s[i].done = {}
     ELSE s[i].begin \in DOMAIN N /\ N[s[i].begin] = NodeAt(ks, s, i)
Pending(s, b, c) == \E i \in 1 .. Len(s) : s[i].begin = b /\ c \notin s[i].done

Placing(ks, vs, N, a, n, us, s) ==
  /\ DOMAIN N = us /\ Trie(ks, N, a, n)
  /\ \E m \in Nat : ArrayIs(a, m) /\ n <= m /\ m >= InitialAlloc
  /\ \A i \in 1 .. Len(s) : CallRight(ks, N, s, i)
  /\ \A b \in DOMAIN N : \A c \in ChildCodes(ks, N[b]) :
       RightAt(ks, vs, N, a, b, c) \/ Pending(s, b, c)
  /\ us # {} => 1 \in us /\ N[1] = Root(ks)
  /\ us = {} => Len(s) = 1 /\ s[1].pos = s[1].low
IsPlaced(ks, vs, N, a, n) ==
  /\ Trie(ks, N, a, n)
  /\ \E m \in Nat : ArrayIs(a, m) /\ n <= m
  /\ \A b \in DOMAIN N : b + MaxByte + 1 < n
  /\ \A b \in DOMAIN N : \A c \in ChildCodes(ks, N[b]) : RightAt(ks, vs, N, a, b, c)
  /\ 1 \in DOMAIN N /\ N[1] = Root(ks)
TrieInv ==
  /\ phase \in {"insert", "built"} => InBytes(keys)
  /\ phase = "insert" => \E N : Placing(keys, values, N, array, size, used, stack)
  /\ phase = "built" /\ keys # <<>> => \E N : IsPlaced(keys, values, N, array, size)

(* A node is given a base: its cells are free, and marked. *)
HasCells(a, m, n) == m \in Nat /\ m > 0 /\ n \in Nat /\ n <= m /\ DOMAIN a = 0 .. m - 1
HasRoom(a, m, b, C, n) == \A c \in C : b + c < n /\ (b + c < m => a[b + c].check = 0)
MarkedIn(a, m, b, C, k, a2) ==
  /\ k \in Nat /\ k >= m /\ DOMAIN a2 = 0 .. k - 1
  /\ \A p \in 0 .. k - 1 :
       /\ a2[p].base = IF p < m THEN a[p].base ELSE 0
       /\ a2[p].check = IF p - b \in C THEN b ELSE IF p < m THEN a[p].check ELSE 0
WithNode(M, N, b, node) == M = [x \in DOMAIN N \cup {b} |-> IF x = b THEN node ELSE N[x]]
PlacesNode(ks, N, a, m, n, node, b, n2, k, a2, M) ==
  /\ InBytes(ks) /\ HasCells(a, m, n) /\ Trie(ks, N, a, n) /\ IsBranch(ks, node)
  /\ b \in Nat /\ b > 0 /\ b \notin DOMAIN N /\ n2 \in Nat /\ n2 >= n
  /\ HasRoom(a, m, b, ChildCodes(ks, node), n2)
  /\ MarkedIn(a, m, b, ChildCodes(ks, node), k, a2) /\ WithNode(M, N, b, node)
LEMMA NodePlaced ==
  ASSUME NEW ks, NEW vs, NEW N, NEW a, NEW m, NEW n, NEW node, NEW b, NEW n2, NEW k, NEW a2, NEW M,
         PlacesNode(ks, N, a, m, n, node, b, n2, k, a2, M)
  PROVE  /\ Trie(ks, M, a2, n2)
         /\ \A x \in DOMAIN N : \A c \in ChildCodes(ks, N[x]) :
              RightAt(ks, vs, N, a, x, c) => RightAt(ks, vs, M, a2, x, c)
  <1> DEFINE C == ChildCodes(ks, node)
  <1> USE DEF PlacesNode, HasCells, HasRoom, MarkedIn
  <1>1. /\ DOMAIN M = DOMAIN N \cup {b} /\ M[b] = node /\ \A x \in DOMAIN N : M[x] = N[x] /\ x # b
    BY DEF WithNode
  <1>2. \A x \in DOMAIN N : /\ x \in Nat /\ x > 0 /\ IsBranch(ks, N[x])
                            /\ \A c \in ChildCodes(ks, N[x]) : x + c < n /\ c \in Nat
    <2>1. ASSUME NEW x \in DOMAIN N
          PROVE  x \in Nat /\ x > 0 /\ IsBranch(ks, N[x]) /\ \A c \in ChildCodes(ks, N[x]) : x + c < n
      BY DEF Trie, NodesOK, Inside
    <2>2. ASSUME NEW x \in DOMAIN N PROVE \A c \in ChildCodes(ks, N[x]) : c \in Nat
      BY <2>1, CodesInside DEF IsBranch
    <2> QED
      BY <2>1, <2>2
  <1>3. C \subseteq Nat
    BY CodesInside DEF IsBranch
  <1>4. /\ \A p \in DOMAIN a : a[p].check = 0 \/ a[p].check \in DOMAIN N
        /\ \A x \in DOMAIN N : \A p \in DOMAIN a : a[p].check = x <=> p - x \in ChildCodes(ks, N[x])
        /\ a[0].base = 1 /\ \A p \in DOMAIN a : a[p].base > 0 => p = 0 \/ a[p].base \in DOMAIN N
    BY DEF Trie, ChecksRight, BasesRight
  <1>5. NodesOK(ks, M)
    BY <1>1, <1>2 DEF NodesOK
  <1>6. Inside(ks, M, n2)
    <2>1. ASSUME NEW x \in DOMAIN M, NEW c \in ChildCodes(ks, M[x]) PROVE x + c < n2
      <3>1. CASE x = b
        BY <1>1, <2>1, <3>1
      <3>2. CASE x # b
        <4>1. x \in DOMAIN N /\ M[x] = N[x]
          BY <1>1, <3>2
        <4>2. x \in Nat /\ c \in Nat /\ x + c < n
          BY <1>2, <2>1, <4>1
        <4> QED
          BY <4>2
      <3> QED
        BY <3>1, <3>2
    <2> QED
      BY <2>1 DEF Inside
  <1>7. ChecksRight(ks, M, a2)
    <2>1. ASSUME NEW p \in DOMAIN a2 PROVE a2[p].check = 0 \/ a2[p].check \in DOMAIN M
      <3>1. p < m => p \in DOMAIN a
        OBVIOUS
      <3> QED
        BY <1>1, <1>4, <3>1, Zenon
    <2>2. ASSUME NEW p \in DOMAIN a2 PROVE a2[p].check = b <=> p - b \in ChildCodes(ks, M[b])
      <3>1. p - b \in C => a2[p].check = b
        OBVIOUS
      <3>2. p - b \notin C /\ p < m => a2[p].check = a[p].check /\ p \in DOMAIN a
        OBVIOUS
      <3>3. p - b \notin C /\ ~(p < m) => a2[p].check = 0
        BY Zenon
      <3> QED
        BY <1>1, <1>4, <3>1, <3>2, <3>3
    <2>3. ASSUME NEW x \in DOMAIN N, NEW p \in DOMAIN a2
          PROVE  a2[p].check = x <=> p - x \in ChildCodes(ks, M[x])
      <3>1. M[x] = N[x] /\ x # b /\ x \in Nat /\ x > 0 /\ p \in Nat
        BY <1>1, <1>2
      <3>2. CASE p - b \in C
        <4>1. a2[p].check = b /\ b + (p - b) = p
          BY <3>1, <3>2
        <4>2. p < m => a[p].check = 0 /\ p \in DOMAIN a
          BY <3>2, <4>1
        <4>3. p < m => p - x \notin ChildCodes(ks, N[x])
          BY <1>4, <3>1, <4>2
        <4>4. ~(p < m) => p - x \notin ChildCodes(ks, N[x])
          <5>1. ASSUME p - x \in ChildCodes(ks, N[x]) PROVE p < m
            <6>1. x + (p - x) < n
              BY <1>2, <5>1
            <6> QED
              BY <3>1, <6>1
          <5> QED
            BY <5>1
        <4> QED
          BY <3>1, <4>1, <4>3, <4>4
      <3>3. CASE p - b \notin C /\ p < m
        <4>1. a2[p].check = a[p].check /\ p \in DOMAIN a
          BY <3>3
        <4> QED
          BY <1>4, <3>1, <4>1, Zenon
      <3>4. CASE p - b \notin C /\ ~(p < m)
        <4>1. a2[p].check = 0
          BY <3>4
        <4>2. ASSUME p - x \in ChildCodes(ks, N[x]) PROVE p < m
          <5>1. x + (p - x) < n
            BY <1>2, <4>2
          <5> QED
            BY <3>1, <5>1
        <4> QED
          BY <3>1, <3>4, <4>1, <4>2
      <3> QED
        BY <3>2, <3>3, <3>4
    <2> QED
      BY <1>1, <2>1, <2>2, <2>3 DEF ChecksRight
  <1>8. BasesRight(M, a2)
    <2>1. a2[0].base = 1
      <3>1. 0 \in 0 .. k - 1 /\ 0 < m
        OBVIOUS
      <3> QED
        BY <1>4, <3>1
    <2>2. ASSUME NEW p \in DOMAIN a2, a2[p].base > 0 PROVE p = 0 \/ a2[p].base \in DOMAIN M
      <3>1. p < m => p \in DOMAIN a /\ a2[p].base = a[p].base
        OBVIOUS
      <3>2. ~(p < m) => a2[p].base = 0
        BY Zenon
      <3> QED
        BY <1>1, <1>4, <2>2, <3>1, <3>2
    <2> QED
      BY <2>1, <2>2 DEF BasesRight
  <1>9. ASSUME NEW x \in DOMAIN N, NEW c \in ChildCodes(ks, N[x]), RightAt(ks, vs, N, a, x, c)
        PROVE  RightAt(ks, vs, M, a2, x, c)
    <2>1. x + c \in 0 .. k - 1 /\ x + c < m
      BY <1>2, <1>9
    <2>2. a2[x + c].base = a[x + c].base /\ M[x] = N[x]
      BY <1>1, <2>1
    <2> QED
      BY <1>1, <1>9, <2>2 DEF RightAt
  <1> QED
    BY <1>5, <1>6, <1>7, <1>8, <1>9 DEF Trie

(* The array grows, and nothing else. *)
GrowsTo(ks, N, a, m, n, k, n2) ==
  /\ InBytes(ks) /\ HasCells(a, m, n) /\ Trie(ks, N, a, n) /\ k \in Nat /\ k >= m /\ n2 \in Nat /\ n2 >= n
LEMMA TrieGrown ==
  ASSUME NEW ks, NEW vs, NEW N, NEW a, NEW m, NEW n, NEW k, NEW n2, GrowsTo(ks, N, a, m, n, k, n2)
  PROVE  /\ Trie(ks, N, Resize(a, k), n2)
         /\ \A x \in DOMAIN N : \A c \in ChildCodes(ks, N[x]) :
              RightAt(ks, vs, N, a, x, c) => RightAt(ks, vs, N, Resize(a, k), x, c)
  <1> USE DEF GrowsTo, HasCells
  <1> DEFINE a2 == Resize(a, k)
  <1>1. /\ DOMAIN a2 = 0 .. k - 1
        /\ \A p \in 0 .. k - 1 : a2[p] = IF p < m THEN a[p] ELSE Empty
    BY DEF Resize
  <1> HIDE DEF a2
  <1>2. \A x \in DOMAIN N : /\ x \in Nat /\ x > 0 /\ IsBranch(ks, N[x])
                            /\ \A c \in ChildCodes(ks, N[x]) : x + c < n /\ c \in Nat
    <2>1. ASSUME NEW x \in DOMAIN N
          PROVE  x \in Nat /\ x > 0 /\ IsBranch(ks, N[x]) /\ \A c \in ChildCodes(ks, N[x]) : x + c < n
      BY DEF Trie, NodesOK, Inside
    <2>2. ASSUME NEW x \in DOMAIN N PROVE \A c \in ChildCodes(ks, N[x]) : c \in Nat
      BY <2>1, CodesInside DEF IsBranch
    <2> QED
      BY <2>1, <2>2
  <1>4. /\ \A p \in DOMAIN a : a[p].check = 0 \/ a[p].check \in DOMAIN N
        /\ \A x \in DOMAIN N : \A p \in DOMAIN a : a[p].check = x <=> p - x \in ChildCodes(ks, N[x])
        /\ a[0].base = 1 /\ \A p \in DOMAIN a : a[p].base > 0 => p = 0 \/ a[p].base \in DOMAIN N
    BY DEF Trie, ChecksRight, BasesRight
  <1>5. NodesOK(ks, N)
    BY DEF Trie
  <1>6. Inside(ks, N, n2)
    <2>1. ASSUME NEW x \in DOMAIN N, NEW c \in ChildCodes(ks, N[x]) PROVE x + c < n2
      BY <1>2, <2>1
    <2> QED
      BY <2>1 DEF Inside
  <1>3. \A p \in DOMAIN a2 : /\ p < m => p \in DOMAIN a /\ a2[p] = a[p]
                             /\ ~(p < m) => a2[p].base = 0 /\ a2[p].check = 0
    BY <1>1 DEF Empty
  <1>7. ChecksRight(ks, N, a2)
    <2>1. \A p \in DOMAIN a2 : a2[p].check = 0 \/ a2[p].check \in DOMAIN N
      BY <1>3, <1>4
    <2>2. ASSUME NEW x \in DOMAIN N, NEW p \in DOMAIN a2
          PROVE  a2[p].check = x <=> p - x \in ChildCodes(ks, N[x])
      <3>1. x \in Nat /\ x > 0 /\ p \in Nat
        BY <1>1, <1>2
      <3>2. p < m => (a2[p].check = x <=> p - x \in ChildCodes(ks, N[x]))
        BY <1>3, <1>4
      <3>3. ASSUME p - x \in ChildCodes(ks, N[x]) PROVE p < m
        <4>1. x + (p - x) < n
          BY <1>2, <3>3
        <4> QED
          BY <3>1, <4>1
      <3> QED
        BY <1>3, <3>1, <3>2, <3>3
    <2> QED
      BY <2>1, <2>2 DEF ChecksRight
  <1>8. BasesRight(N, a2)
    <2>1. 0 \in DOMAIN a2 /\ 0 < m
      BY <1>1
    <2>2. ASSUME NEW p \in DOMAIN a2, a2[p].base > 0 PROVE p = 0 \/ a2[p].base \in DOMAIN N
      <3>1. p < m => p = 0 \/ a2[p].base \in DOMAIN N
        BY <1>3, <1>4, <2>2
      <3>2. ~(p < m) => a2[p].base = 0
        BY <1>3
      <3> QED
        BY <2>2, <3>1, <3>2
    <2> QED
      BY <1>3, <1>4, <2>1, <2>2 DEF BasesRight
  <1>9. ASSUME NEW x \in DOMAIN N, NEW c \in ChildCodes(ks, N[x]), RightAt(ks, vs, N, a, x, c)
        PROVE  RightAt(ks, vs, N, a2, x, c)
    <2>1. x + c \in DOMAIN a2 /\ x + c < m
      BY <1>1, <1>2, <1>9
    <2>2. a2[x + c].base = a[x + c].base
      BY <1>3, <2>1
    <2> QED
      BY <1>9, <2>2 DEF RightAt
  <1> QED
    BY <1>5, <1>6, <1>7, <1>8, <1>9 DEF Trie, a2

(* The base of a child is written: its value, or the base of its node. *)
WritesChild(ks, vs, N, a, m, n, b, c, v, child, a2) ==
  /\ InBytes(ks) /\ m \in Nat /\ DOMAIN a = 0 .. m - 1
  /\ \A p \in DOMAIN a : {"base", "check"} \subseteq DOMAIN a[p]
  /\ n \in Nat /\ n <= m /\ Trie(ks, N, a, n)
  /\ b \in DOMAIN N /\ c \in ChildCodes(ks, N[b]) /\ v \in Int /\ child = Child(ks, N[b], c)
  /\ IF ChildCodes(ks, child) = {}
     THEN vs[child.left] >= 0 /\ vs[child.left] \in Int /\ v = - vs[child.left] - 1
     ELSE v \in DOMAIN N /\ N[v] = child
  /\ a2 = [a EXCEPT ![b + c].base = v]
LEMMA ChildWritten ==
  ASSUME NEW ks, NEW vs, NEW N, NEW a, NEW m, NEW n, NEW b, NEW c, NEW v, NEW child, NEW a2,
         WritesChild(ks, vs, N, a, m, n, b, c, v, child, a2)
  PROVE  /\ Trie(ks, N, a2, n) /\ RightAt(ks, vs, N, a2, b, c)
         /\ \A x \in DOMAIN N : \A d \in ChildCodes(ks, N[x]) :
              RightAt(ks, vs, N, a, x, d) => RightAt(ks, vs, N, a2, x, d)
  <1> USE DEF WritesChild
  <1> DEFINE q == b + c
  <1>2. \A x \in DOMAIN N : /\ x \in Nat /\ x > 0 /\ IsBranch(ks, N[x])
                            /\ \A d \in ChildCodes(ks, N[x]) : x + d < n /\ d \in Nat
    <2>1. ASSUME NEW x \in DOMAIN N
          PROVE  x \in Nat /\ x > 0 /\ IsBranch(ks, N[x]) /\ \A d \in ChildCodes(ks, N[x]) : x + d < n
      BY DEF Trie, NodesOK, Inside
    <2>2. ASSUME NEW x \in DOMAIN N PROVE \A d \in ChildCodes(ks, N[x]) : d \in Nat
      BY <2>1, CodesInside DEF IsBranch
    <2> QED
      BY <2>1, <2>2
  <1>1. q \in DOMAIN a /\ q > 0
    <2>1. b \in Nat /\ b > 0 /\ c \in Nat /\ b + c < n
      BY <1>2
    <2> QED
      BY <2>1
  <1>4. /\ \A p \in DOMAIN a : a[p].check = 0 \/ a[p].check \in DOMAIN N
        /\ \A x \in DOMAIN N : \A p \in DOMAIN a : a[p].check = x <=> p - x \in ChildCodes(ks, N[x])
        /\ a[0].base = 1 /\ \A p \in DOMAIN a : a[p].base > 0 => p = 0 \/ a[p].base \in DOMAIN N
    BY DEF Trie, ChecksRight, BasesRight
  <1>3. /\ DOMAIN a2 = DOMAIN a
        /\ \A p \in DOMAIN a : a2[p].check = a[p].check /\ a2[p].base = IF p = q THEN v ELSE a[p].base
    <2> HIDE DEF q
    <2>1. a2 = [a EXCEPT ![q].base = v]
      BY DEF q
    <2> QED
      BY <2>1
  <1>5. v > 0 => v \in DOMAIN N
    OBVIOUS
  <1>6. ChecksRight(ks, N, a2)
    <2> HIDE DEF q
    <2> QED
      BY <1>3, <1>4 DEF ChecksRight
  <1>7. BasesRight(N, a2)
    <2> HIDE DEF q
    <2>1. 0 \in DOMAIN a /\ 0 # q
      BY <1>1
    <2>2. ASSUME NEW p \in DOMAIN a2, a2[p].base > 0 PROVE p = 0 \/ a2[p].base \in DOMAIN N
      BY <1>3, <1>4, <1>5, <2>2
    <2> QED
      BY <1>3, <1>4, <2>1, <2>2 DEF BasesRight
  <1>8. RightAt(ks, vs, N, a2, b, c)
    <2>1. a2[b + c].base = v
      BY <1>1, <1>3
    <2> QED
      BY <2>1 DEF RightAt
  <1>9. ASSUME NEW x \in DOMAIN N, NEW d \in ChildCodes(ks, N[x]), RightAt(ks, vs, N, a, x, d)
        PROVE  RightAt(ks, vs, N, a2, x, d)
    <2>1. x \in Nat /\ d \in Nat /\ x + d < n /\ b \in Nat /\ c \in Nat
      BY <1>2, <1>9
    <2>4. x + d \in DOMAIN a
      BY <2>1
    <2>2. CASE x + d = q
      <3>1. (x + d) - x = d /\ q - b = c
        BY <2>1
      <3>2. a[q].check = b /\ a[q].check = x
        BY <1>1, <1>4, <1>9, <2>2, <3>1
      <3> QED
        BY <1>8, <2>1, <2>2, <3>2
    <2>3. CASE x + d # q
      <3>1. a2[x + d].base = a[x + d].base
        BY <1>3, <2>4, <2>3
      <3> QED
        BY <1>9, <3>1 DEF RightAt
    <2> QED
      BY <2>2, <2>3
  <1> QED
    BY <1>6, <1>7, <1>8, <1>9, Zenon DEF Trie

(* What is where on a stack whose innermost call was changed, that got a    *)
(* new call, or from which one returned.                                   *)
LEMMA TopChanged ==
  ASSUME NEW ks, NEW s, StackOK(ks, s), s # <<>>, NEW g, NEW t, t = <<g>> \o Tail(s)
  PROVE  /\ Len(s) \in Nat /\ Len(s) > 0 /\ Head(s) = s[1] /\ FrameOK(ks, s[1])
         /\ Len(t) = Len(s) /\ t[1] = g /\ \A i \in 2 .. Len(s) : t[i] = s[i]
  <1>1. PICK S : s \in Seq(S) /\ \A f \in S : FrameOK(ks, f)
    BY DEF StackOK
  <1>2. Len(s) \in Nat /\ Len(s) > 0 /\ Head(s) = s[1] /\ s[1] \in S
    BY <1>1
  <1> DEFINE r == Tail(s)
  <1>3. r \in Seq(S) /\ Len(r) = Len(s) - 1 /\ \A i \in 1 .. Len(s) - 1 : r[i] = s[i + 1]
    BY <1>1
  <1>4. t = <<g>> \o r
    OBVIOUS
  <1> HIDE DEF r
  <1>5. Len(t) = Len(r) + 1 /\ t[1] = g /\ \A i \in 2 .. Len(r) + 1 : t[i] = r[i - 1]
    BY <1>3, <1>4, InFront
  <1>6. \A i \in 2 .. Len(s) : t[i] = s[i]
    BY <1>2, <1>3, <1>5
  <1>7. Len(t) = Len(s) /\ t[1] = g
    BY <1>2, <1>3, <1>5
  <1> QED
    BY <1>1, <1>2, <1>6, <1>7

LEMMA TopAdded ==
  ASSUME NEW ks, NEW s, StackOK(ks, s), s # <<>>, NEW g, NEW t, t = <<g>> \o s
  PROVE  /\ Len(s) \in Nat /\ Len(s) > 0 /\ Head(s) = s[1] /\ FrameOK(ks, s[1])
         /\ Len(t) = Len(s) + 1 /\ t[1] = g /\ \A i \in 1 .. Len(s) : t[i + 1] = s[i]
  <1>1. PICK S : s \in Seq(S) /\ \A f \in S : FrameOK(ks, f)
    BY DEF StackOK
  <1>2. Len(s) \in Nat /\ Len(s) > 0 /\ Head(s) = s[1] /\ s[1] \in S
    BY <1>1
  <1>3. Len(t) = Len(s) + 1 /\ t[1] = g /\ \A i \in 2 .. Len(s) + 1 : t[i] = s[i - 1]
    BY <1>1, InFront
  <1>4. ASSUME NEW i \in 1 .. Len(s) PROVE t[i + 1] = s[i]
    <2>1. i + 1 \in 2 .. Len(s) + 1 /\ (i + 1) - 1 = i
      BY <1>2
    <2> QED
      BY <1>3, <2>1
  <1> QED
    BY <1>1, <1>2, <1>3, <1>4

ReturnsTop(t, g, s) == t = <<g>> \o SubSeq(s, 3, Len(s))
LEMMA TopReturned ==
  ASSUME NEW ks, NEW s, StackOK(ks, s), s # <<>>, Len(s) > 1, NEW g, NEW t, ReturnsTop(t, g, s)
  PROVE  /\ Len(s) \in Nat /\ Head(s) = s[1] /\ FrameOK(ks, s[1])
         /\ FrameOK(ks, s[2]) /\ s[2].done # DOMAIN s[2].siblings
         /\ Len(t) = Len(s) - 1 /\ t[1] = g /\ \A i \in 2 .. Len(s) - 1 : t[i] = s[i + 1]
  <1>1. PICK S : s \in Seq(S) /\ \A f \in S : FrameOK(ks, f)
    BY DEF StackOK
  <1>2. Len(s) \in Nat /\ Len(s) >= 2 /\ Head(s) = s[1] /\ s[1] \in S /\ s[2] \in S
    BY <1>1
  <1> DEFINE r == SubSeq(s, 3, Len(s))
  <1>3. r \in Seq(S) /\ Len(r) = Len(s) - 2 /\ \A i \in 1 .. Len(s) - 2 : r[i] = s[i + 2]
    BY <1>1, <1>2, BehindTwo, Zenon
  <1>4. t = <<g>> \o r
    BY DEF ReturnsTop
  <1> HIDE DEF r
  <1>5. Len(t) = Len(r) + 1 /\ t[1] = g /\ \A i \in 2 .. Len(r) + 1 : t[i] = r[i - 1]
    BY <1>3, <1>4, InFront
  <1>6. ASSUME NEW i \in 2 .. Len(s) - 1 PROVE t[i] = s[i + 1]
    <2>1. i \in 2 .. Len(r) + 1 /\ i - 1 \in 1 .. Len(s) - 2 /\ (i - 1) + 2 = i + 1
      BY <1>2, <1>3
    <2> QED
      BY <1>3, <1>5, <2>1
  <1>7. Len(t) = Len(s) - 1
    BY <1>2, <1>3, <1>5
  <1>8. 2 \in 2 .. Len(s)
    BY <1>2
  <1> QED
    BY <1>1, <1>2, <1>5, <1>6, <1>7, <1>8 DEF StackOK

(* M has the nodes of N, and perhaps more. *)
Extends(N, M) == DOMAIN N \subseteq DOMAIN M /\ \A b \in DOMAIN N : M[b] = N[b]

(* The calls behind the innermost are right as before. *)
Calls(ks, N, s) == \A i \in 1 .. Len(s) : CallRight(ks, N, s, i)
SameBehind(s, t) == Len(s) \in Nat /\ Len(t) = Len(s) /\ \A i \in 2 .. Len(s) : t[i] = s[i]
LEMMA CallsKept ==
  ASSUME NEW ks, NEW N, NEW M, Extends(N, M), NEW s, NEW t, SameBehind(s, t), Calls(ks, N, s)
  PROVE  /\ \A i \in 1 .. Len(s) : NodeAt(ks, t, i) = NodeAt(ks, s, i)
         /\ \A i \in 2 .. Len(s) : CallRight(ks, M, t, i)
  <1> USE DEF SameBehind, Calls
  <1>1. ASSUME NEW i \in 1 .. Len(s) PROVE NodeAt(ks, t, i) = NodeAt(ks, s, i)
    <2>1. i # Len(s) => i + 1 \in 2 .. Len(s)
      OBVIOUS
    <2> QED
      BY <2>1 DEF NodeAt
  <1>2. ASSUME NEW i \in 2 .. Len(s) PROVE CallRight(ks, M, t, i)
    <2>1. CallRight(ks, N, s, i) /\ t[i] = s[i] /\ NodeAt(ks, t, i) = NodeAt(ks, s, i)
      BY <1>1
    <2> QED
      BY <2>1 DEF CallRight, Extends
  <1> QED
    BY <1>1, <1>2

ReplacesTop(t, g, s) == t = <<g>> \o Tail(s)
(* The search finds a place: the node of the call gets its base. *)
FindsPlace(ks, vs, N, a, n, us, s, f, b, m, k, h, n2, a2, g, t) ==
  /\ InBytes(ks) /\ n \in Nat /\ Placing(ks, vs, N, a, n, us, s) /\ StackOK(ks, s) /\ s # <<>>
  /\ f = s[1] /\ f.begin = 0
  /\ b \in Nat /\ b > 0 /\ b \notin us /\ (us = {} => b = 1)
  /\ ArrayIs(a, m) /\ k \in Nat /\ k >= m /\ k > 0 /\ h \in Nat /\ b + h < k
  /\ \A c \in DOMAIN f.siblings : c <= h /\ (b + c < m => a[b + c].check = 0)
  /\ n2 = Larger(n, b + h + 1) /\ ArrayIs(a2, k)
  /\ \A p \in 0 .. k - 1 :
       /\ a2[p].base = IF p < m THEN a[p].base ELSE 0
       /\ a2[p].check = IF p - b \in DOMAIN f.siblings THEN b ELSE IF p < m THEN a[p].check ELSE 0
  /\ g.begin = b /\ g.done = {} /\ g.siblings = f.siblings /\ ReplacesTop(t, g, s)
LEMMA ChildrenPlaced ==
  ASSUME NEW ks, NEW vs, NEW N, NEW a, NEW n, NEW us, NEW s, NEW f, NEW b, NEW m, NEW k, NEW h, NEW n2,
         NEW a2, NEW g, NEW t, FindsPlace(ks, vs, N, a, n, us, s, f, b, m, k, h, n2, a2, g, t)
  PROVE  \E M : Placing(ks, vs, M, a2, n2, us \cup {b}, t)
  <1> USE DEF FindsPlace
  <1> DEFINE node == NodeAt(ks, s, 1)
             C == ChildCodes(ks, node)
             M == [x \in DOMAIN N \cup {b} |-> IF x = b THEN node ELSE N[x]]
  <1>1. /\ DOMAIN N = us /\ Trie(ks, N, a, n)
        /\ \A i \in 1 .. Len(s) : CallRight(ks, N, s, i)
        /\ \A x \in DOMAIN N : \A c \in ChildCodes(ks, N[x]) : RightAt(ks, vs, N, a, x, c) \/ Pending(s, x, c)
        /\ us # {} => 1 \in us /\ N[1] = Root(ks)
        /\ us = {} => Len(s) = 1
    BY DEF Placing
  <1>2. /\ Len(s) \in Nat /\ Len(s) > 0 /\ Len(t) = Len(s) /\ t[1] = g /\ \A i \in 2 .. Len(s) : t[i] = s[i]
    BY TopChanged DEF ReplacesTop
  <1>3. CallRight(ks, N, s, 1) /\ 1 \in 1 .. Len(s)
    BY <1>1, <1>2
  <1>4. IsBranch(ks, node) /\ f.siblings = Children(ks, node) /\ DOMAIN f.siblings = C
    BY <1>3 DEF CallRight, Children
  <1>5. C \subseteq Nat
    BY <1>4, CodesInside DEF IsBranch
  <1>6. /\ m \in Nat /\ n <= m /\ m >= InitialAlloc /\ DOMAIN a = 0 .. m - 1
    <2>1. PICK q \in Nat : ArrayIs(a, q) /\ n <= q /\ q >= InitialAlloc
      BY DEF Placing
    <2>2. m \in Nat /\ DOMAIN a = 0 .. m - 1 /\ DOMAIN a = 0 .. q - 1
      BY <2>1 DEF ArrayIs
    <2>3. m = q
      BY <2>2
    <2> QED
      BY <2>1, <2>2, <2>3
  <1>7. m > 0
    BY <1>6, Growing
  <1>8. n2 \in Nat /\ n2 >= n /\ n2 >= b + h + 1 /\ n2 <= k
    BY <1>6 DEF Larger
  <1>9. \A c \in C : b + c < n2 /\ (b + c < m => a[b + c].check = 0)
    BY <1>4, <1>5, <1>8
  <1>10. DOMAIN a2 = 0 .. k - 1
    BY DEF ArrayIs
  <1>11. \A p \in 0 .. k - 1 :
           /\ a2[p].base = IF p < m THEN a[p].base ELSE 0
           /\ a2[p].check = IF p - b \in C THEN b ELSE IF p < m THEN a[p].check ELSE 0
    BY <1>4
  <1>12. WithNode(M, N, b, node) /\ C = ChildCodes(ks, node)
    BY DEF WithNode
  <1>13. DOMAIN M = us \cup {b} /\ M[b] = node /\ Extends(N, M)
    BY <1>1 DEF Extends
  <1> HIDE DEF M, C, node
  <1>14. /\ Trie(ks, M, a2, n2)
         /\ \A x \in DOMAIN N : \A c \in ChildCodes(ks, N[x]) :
              RightAt(ks, vs, N, a, x, c) => RightAt(ks, vs, M, a2, x, c)
    <2>1. HasCells(a, m, n)
      BY <1>6, <1>7 DEF HasCells
    <2>2. HasRoom(a, m, b, ChildCodes(ks, node), n2)
      BY <1>9, <1>12 DEF HasRoom
    <2>3. MarkedIn(a, m, b, ChildCodes(ks, node), k, a2)
      BY <1>10, <1>11, <1>12 DEF MarkedIn
    <2>4. n2 \in Nat /\ n2 >= n /\ IsBranch(ks, node) /\ b \notin DOMAIN N
      BY <1>1, <1>4, <1>8
    <2>5. PlacesNode(ks, N, a, m, n, node, b, n2, k, a2, M)
      BY <1>1, <1>12, <2>1, <2>2, <2>3, <2>4 DEF PlacesNode
    <2> QED
      BY <2>5, NodePlaced
  <1>15. /\ \A i \in 1 .. Len(s) : NodeAt(ks, t, i) = NodeAt(ks, s, i)
         /\ \A i \in 2 .. Len(s) : CallRight(ks, M, t, i)
    <2>1. SameBehind(s, t) /\ Calls(ks, N, s)
      BY <1>1, <1>2 DEF SameBehind, Calls
    <2> QED
      BY <1>13, <2>1, CallsKept
  <1>16. CallRight(ks, M, t, 1)
    <2>1. NodeAt(ks, t, 1) = node
      BY <1>3, <1>15 DEF node
    <2> QED
      BY <1>2, <1>4, <1>13, <2>1 DEF CallRight
  <1>17. \A i \in 1 .. Len(t) : CallRight(ks, M, t, i)
    <2>1. ASSUME NEW i \in 1 .. Len(t) PROVE i = 1 \/ i \in 2 .. Len(s)
      BY <1>2
    <2> QED
      BY <1>15, <1>16, <2>1
  <1>18. ASSUME NEW x \in DOMAIN M, NEW c \in ChildCodes(ks, M[x])
         PROVE  RightAt(ks, vs, M, a2, x, c) \/ Pending(t, x, c)
    <2>1. CASE x = b
      BY <1>2, <1>3, <2>1, Zenon DEF Pending
    <2>2. CASE x # b
      <3>1. x \in DOMAIN N /\ M[x] = N[x]
        BY <1>1, <1>13, <2>2 DEF Extends
      <3>2. CASE RightAt(ks, vs, N, a, x, c)
        BY <1>14, <3>1, <3>2
      <3>3. CASE Pending(s, x, c)
        <4>1. PICK i \in 1 .. Len(s) : s[i].begin = x /\ c \notin s[i].done
          BY <3>3 DEF Pending
        <4>2. x > 0
          BY <1>1, <3>1 DEF Trie, NodesOK
        <4>3. i # 1
          BY <4>1, <4>2
        <4>4. i \in 2 .. Len(s)
          BY <1>2, <4>3
        <4> QED
          BY <1>2, <4>1, <4>4, Zenon DEF Pending
      <3> QED
        BY <1>1, <3>1, <3>2, <3>3
    <2> QED
      BY <2>1, <2>2
  <1>19. 1 \in us \cup {b} /\ M[1] = Root(ks)
    <2>1. CASE us = {}
      <3>1. b = 1 /\ Len(s) = 1
        BY <1>1, <2>1
      <3>2. node = Root(ks)
        BY <3>1 DEF node, NodeAt
      <3> QED
        BY <1>13, <3>1, <3>2
    <2>2. CASE us # {}
      BY <1>1, <1>13, <2>2 DEF Extends
    <2> QED
      BY <2>1, <2>2
  <1>20. n2 <= k /\ k >= InitialAlloc
    BY <1>6, <1>8, Growing
  <1>21. Placing(ks, vs, M, a2, n2, us \cup {b}, t)
    BY <1>13, <1>14, <1>17, <1>18, <1>19, <1>20 DEF Placing
  <1> QED
    BY <1>21

(* The search goes on, perhaps in a larger array. *)
GoesOn(ks, vs, N, a, n, us, s, f, m, k, g, t) ==
  /\ InBytes(ks) /\ n \in Nat /\ Placing(ks, vs, N, a, n, us, s) /\ StackOK(ks, s) /\ s # <<>>
  /\ f = s[1] /\ f.begin = 0 /\ us # {} /\ ArrayIs(a, m) /\ k \in Nat /\ k >= m
  /\ g.begin = 0 /\ g.done = f.done /\ g.siblings = f.siblings /\ ReplacesTop(t, g, s)
LEMMA SearchGoesOn ==
  ASSUME NEW ks, NEW vs, NEW N, NEW a, NEW n, NEW us, NEW s, NEW f, NEW m, NEW k, NEW g, NEW t,
         GoesOn(ks, vs, N, a, n, us, s, f, m, k, g, t)
  PROVE  Placing(ks, vs, N, Resize(a, k), n, us, t)
  <1> USE DEF GoesOn
  <1>1. /\ DOMAIN N = us /\ Trie(ks, N, a, n)
        /\ \A i \in 1 .. Len(s) : CallRight(ks, N, s, i)
        /\ \A x \in DOMAIN N : \A c \in ChildCodes(ks, N[x]) : RightAt(ks, vs, N, a, x, c) \/ Pending(s, x, c)
        /\ 1 \in us /\ N[1] = Root(ks)
    BY DEF Placing
  <1>2. /\ Len(s) \in Nat /\ Len(s) > 0 /\ Len(t) = Len(s) /\ t[1] = g /\ \A i \in 2 .. Len(s) : t[i] = s[i]
    BY TopChanged DEF ReplacesTop
  <1>6. /\ m \in Nat /\ n <= m /\ m >= InitialAlloc /\ DOMAIN a = 0 .. m - 1
    <2>1. PICK q \in Nat : ArrayIs(a, q) /\ n <= q /\ q >= InitialAlloc
      BY DEF Placing
    <2>2. m \in Nat /\ DOMAIN a = 0 .. m - 1 /\ DOMAIN a = 0 .. q - 1
      BY <2>1 DEF ArrayIs
    <2>3. m = q
      BY <2>2
    <2> QED
      BY <2>1, <2>2, <2>3
  <1>7. m > 0
    BY <1>6, Growing
  <1>8. ArrayIs(Resize(a, k), k) /\ n <= k /\ k >= InitialAlloc
    BY <1>6, ResizedIs, Growing
  <1>9. /\ Trie(ks, N, Resize(a, k), n)
        /\ \A x \in DOMAIN N : \A c \in ChildCodes(ks, N[x]) :
             RightAt(ks, vs, N, a, x, c) => RightAt(ks, vs, N, Resize(a, k), x, c)
    <2>1. HasCells(a, m, n)
      BY <1>6, <1>7 DEF HasCells
    <2>2. n \in Nat /\ n >= n
      OBVIOUS
    <2>3. GrowsTo(ks, N, a, m, n, k, n)
      BY <1>1, <1>6, <2>1, <2>2 DEF GrowsTo
    <2> QED
      BY <2>3, TrieGrown, Zenon
  <1>10. Extends(N, N)
    BY DEF Extends
  <1>11. /\ \A i \in 1 .. Len(s) : NodeAt(ks, t, i) = NodeAt(ks, s, i)
         /\ \A i \in 2 .. Len(s) : CallRight(ks, N, t, i)
    <2>1. SameBehind(s, t) /\ Calls(ks, N, s)
      BY <1>1, <1>2 DEF SameBehind, Calls
    <2> QED
      BY <1>10, <2>1, CallsKept
  <1>12. CallRight(ks, N, t, 1)
    <2>1. CallRight(ks, N, s, 1) /\ NodeAt(ks, t, 1) = NodeAt(ks, s, 1)
      BY <1>1, <1>2, <1>11
    <2> QED
      BY <1>2, <2>1 DEF CallRight
  <1>13. \A i \in 1 .. Len(t) : CallRight(ks, N, t, i)
    <2>1. ASSUME NEW i \in 1 .. Len(t) PROVE i = 1 \/ i \in 2 .. Len(s)
      BY <1>2
    <2> QED
      BY <1>11, <1>12, <2>1
  <1>14. ASSUME NEW x \in DOMAIN N, NEW c \in ChildCodes(ks, N[x]), Pending(s, x, c) PROVE Pending(t, x, c)
    <2>1. PICK i \in 1 .. Len(s) : s[i].begin = x /\ c \notin s[i].done
      BY <1>14 DEF Pending
    <2>2. t[i].begin = s[i].begin /\ t[i].done = s[i].done
      <3>1. i = 1 \/ i \in 2 .. Len(s)
        BY <1>2
      <3> QED
        BY <1>2, <3>1
    <2> QED
      BY <1>2, <2>1, <2>2 DEF Pending
  <1> QED
    BY <1>1, <1>8, <1>9, <1>13, <1>14 DEF Placing

LEMMA HighOf ==
  ASSUME NEW ks, NEW f, FrameOK(ks, f)
  PROVE  High(f) \in DOMAIN f.siblings /\ High(f) \in Nat /\ \A d \in DOMAIN f.siblings : d <= High(f)
  <1>1. \E c \in DOMAIN f.siblings : \A d \in DOMAIN f.siblings : d <= c
    BY Biggest DEF FrameOK, AreNodes
  <1>2. High(f) \in DOMAIN f.siblings /\ \A d \in DOMAIN f.siblings : d <= High(f)
    BY <1>1 DEF High
  <1> QED
    BY <1>2 DEF FrameOK, AreNodes

(* The cells of a state of the insertion. *)
LEMMA PlacingCells ==
  ASSUME NEW ks, NEW vs, NEW N, NEW a, NEW n \in Nat, NEW us, NEW s, Placing(ks, vs, N, a, n, us, s), NEW m, ArrayIs(a, m)
  PROVE  m \in Nat /\ n <= m /\ m >= InitialAlloc /\ m > 0 /\ DOMAIN a = 0 .. m - 1
  <1>1. PICK q \in Nat : ArrayIs(a, q) /\ n <= q /\ q >= InitialAlloc
    BY DEF Placing
  <1>2. m \in Nat /\ DOMAIN a = 0 .. m - 1 /\ DOMAIN a = 0 .. q - 1
    BY <1>1 DEF ArrayIs
  <1>3. m = q
    BY <1>2
  <1> QED
    BY <1>1, <1>2, <1>3, Growing

LEMMA ProbeTrie ==
  ASSUME ArrayOK, TrieInv, Probe PROVE TrieInv'
  <1> DEFINE f == Head(stack)
             pos == f.pos + 1
             free == CellAt(pos).check = 0
             begin == pos - f.low
             room == RoomAt(f)
             n == IF Grows(f) THEN Grown(RoomAt(f)) ELSE RoomAt(f)
             fits == free /\ Free(f, begin)
             g == [f EXCEPT !.pos = pos, !.begin = IF fits THEN begin ELSE 0,
                            !.first = f.first /\ ~free,
                            !.nonzero_num = IF free THEN f.nonzero_num ELSE f.nonzero_num + 1]
  <1>1. /\ phase = "insert" /\ UNCHANGED <<keys, values, progress, phase>> /\ f.begin = 0
        /\ Grows(f) => progress > 0
        /\ stack' = <<g>> \o Tail(stack)
        /\ fits => /\ array' = [p \in 0 .. n - 1 |->
                                  IF p - begin \in DOMAIN f.siblings
                                  THEN [CellAt(p) EXCEPT !.check = begin] ELSE CellAt(p)]
                   /\ size' = Larger(size, begin + High(f) + 1)
                   /\ used' = used \cup {begin}
        /\ ~fits => array' = Resize(array, n) /\ UNCHANGED <<used, size>>
    BY DEF Probe
  <1>2. /\ KeysOK /\ stack # <<>> /\ StackOK(keys, stack)
        /\ size \in Nat /\ progress \in Nat /\ InBytes(keys)
    BY <1>1 DEF ArrayOK, TrieInv
  <1>3. PICK N : Placing(keys, values, N, array, size, used, stack)
    BY <1>1 DEF TrieInv
  <1>4. FrameOK(keys, f) /\ f = stack[1] /\ Len(stack) \in Nat /\ Len(stack) > 0
    <2>1. Len(stack) \in Nat /\ Len(stack) > 0 /\ Head(stack) = stack[1] /\ FrameOK(keys, stack[1])
      BY <1>2, TopChanged, Zenon
    <2> QED
      BY <2>1
  <1>5. PICK m : ArrayIs(array, m)
    BY DEF ArrayOK
  <1>6. /\ m \in Nat /\ size <= m /\ m >= InitialAlloc /\ m > 0 /\ DOMAIN array = 0 .. m - 1 /\ alloc = m
    BY <1>2, <1>3, <1>5, PlacingCells, AllocIs
  <1>7. /\ f.pos \in Nat /\ f.low \in Nat /\ pos \in Nat /\ f.low <= f.pos /\ begin \in Nat /\ begin > 0
        /\ High(f) \in Nat /\ \A d \in DOMAIN f.siblings : d <= High(f)
    <2>1. f.pos \in Nat /\ f.low \in Nat /\ f.low <= f.pos
      BY <1>4 DEF FrameOK
    <2>2. High(f) \in Nat /\ \A d \in DOMAIN f.siblings : d <= High(f)
      BY <1>4, HighOf
    <2> HIDE DEF f
    <2> QED
      BY <2>1, <2>2
  <1>8. CallRight(keys, N, stack, 1)
    <2>1. 1 \in 1 .. Len(stack)
      BY <1>4
    <2> QED
      BY <1>3, <2>1 DEF Placing
  <1>9. High(f) <= MaxByte + 1 /\ MaxByte \in Nat
    <2>1. High(f) \in DOMAIN f.siblings
      BY <1>4, HighOf
    <2>2. DOMAIN f.siblings = ChildCodes(keys, NodeAt(keys, stack, 1)) /\ IsNode(keys, NodeAt(keys, stack, 1))
      BY <1>4, <1>8 DEF CallRight, Children, IsBranch
    <2>3. DOMAIN f.siblings \subseteq Codes
      BY <1>2, <2>2, CodesInside
    <2>4. MaxByte \in Nat
      BY ArrayConstants
    <2> QED
      BY <2>1, <2>3, <2>4 DEF Codes
  <1>10. room \in Nat /\ room >= m /\ room >= f.pos + 2
    BY <1>6, <1>7 DEF RoomAt, Larger
  <1>11. Grows(f) => n \in Nat /\ n >= room + MaxByte + 2
    <2>1. Len(keys) \in Nat
      BY <1>2 DEF KeysOK
    <2>2. room >= InitialAlloc /\ InitialAlloc \in Nat
      BY <1>6, <1>10, Growing
    <2> HIDE DEF f
    <2>3. ASSUME Grows(f) PROVE Grown(room) \in Nat /\ Grown(room) >= room + MaxByte + 2
      <3>1. progress > 0
        BY <1>1, <2>3
      <3> HIDE DEF room
      <3> QED
        BY <1>2, <1>10, <2>1, <2>2, <3>1, GrownEnough
    <2> QED
      BY <2>3
  <1>12. n \in Nat /\ n >= m /\ n > 0 /\ n >= room
    BY <1>6, <1>9, <1>10, <1>11
  <1>13. free => begin + High(f) < n
    <2> SUFFICES ASSUME free PROVE begin + High(f) < n
      OBVIOUS
    <2>1. CASE Grows(f)
      <3>1. n >= room + MaxByte + 2 /\ n \in Nat
        BY <1>11, <2>1
      <3> HIDE DEF n, room, f
      <3> QED
        BY <1>7, <1>9, <1>10, <3>1
    <2>2. CASE ~Grows(f)
      <3>1. ~(f.pos + 1 - f.low + High(f) >= room) /\ n = room
        BY <2>2 DEF Grows
      <3> HIDE DEF n, room, f
      <3> QED
        BY <1>7, <1>10, <3>1
    <2> QED
      BY <2>1, <2>2
  <1>14. ASSUME NEW p \in Nat PROVE CellAt(p) = IF p < m THEN array[p] ELSE Empty
    BY <1>6 DEF CellAt
  <1>15. used = {} => fits /\ begin = 1
    <2> SUFFICES ASSUME used = {} PROVE fits /\ begin = 1
      OBVIOUS
    <2>1. DOMAIN N = {} /\ Trie(keys, N, array, size) /\ stack[1].pos = stack[1].low
      BY <1>3 DEF Placing
    <2>2. \A p \in DOMAIN array : array[p].check = 0
      BY <2>1 DEF Trie, ChecksRight
    <2>3. \A p \in Nat : CellAt(p).check = 0
      BY <1>6, <1>14, <2>2 DEF Empty
    <2>4. begin = 1
      BY <1>4, <1>7, <2>1
    <2>5. DOMAIN f.siblings \subseteq Nat
      BY <1>4 DEF FrameOK, AreNodes
    <2>6. Free(f, begin)
      <3> HIDE DEF f, begin
      <3> QED
        BY <1>7, <2>3, <2>5 DEF Free
    <2> QED
      BY <1>7, <2>3, <2>4, <2>6
  <1>16. /\ g.begin = (IF fits THEN begin ELSE 0) /\ g.done = f.done /\ g.siblings = f.siblings
         /\ g.pos = pos /\ g.low = f.low
    <2>1. FrameFields \subseteq DOMAIN f
      BY <1>4 DEF FrameOK
    <2> HIDE DEF f, fits, begin, pos, free
    <2> QED
      BY <2>1 DEF FrameFields
  <1>17. f.done = {}
    BY <1>1, <1>4, <1>8 DEF CallRight
  <1> SUFFICES \E M : Placing(keys, values, M, array', size', used', stack')
    BY <1>1, <1>2 DEF TrieInv
  <1>18. ReplacesTop(stack', g, stack)
    BY <1>1 DEF ReplacesTop
  <1>19. CASE fits
    <2> DEFINE b == begin
               h == High(f)
               C == DOMAIN f.siblings
    <2>1. b \notin used /\ \A c \in C : CellAt(b + c).check = 0
      BY <1>19 DEF Free
    <2>2. C \subseteq Nat
      BY <1>4 DEF FrameOK, AreNodes
    <2>3. b \in Nat /\ b > 0 /\ (used = {} => b = 1) /\ h \in Nat /\ b + h < n
      BY <1>7, <1>13, <1>15, <1>19
    <2>4. size' = Larger(size, b + h + 1) /\ used' = used \cup {b} /\ g.begin = b /\ g.done = {}
      BY <1>1, <1>16, <1>17, <1>19
    <2>5. array' = [p \in 0 .. n - 1 |-> IF p - b \in C THEN [CellAt(p) EXCEPT !.check = b] ELSE CellAt(p)]
      BY <1>1, <1>19
    <2> HIDE DEF b, h, n, g, fits
    <2>6. \A c \in C : c <= h /\ (b + c < m => array[b + c].check = 0)
      <3> SUFFICES ASSUME NEW c \in C PROVE c <= h /\ (b + c < m => array[b + c].check = 0)
        OBVIOUS
      <3>1. c \in Nat /\ c <= h /\ CellAt(b + c).check = 0 /\ b + c \in Nat
        BY <1>7, <2>1, <2>2, <2>3 DEF h
      <3> QED
        BY <1>14, <3>1
    <2> HIDE DEF C
    <2>7. ArrayIs(array', n)
      BY <1>5, <1>12, <2>1, <2>3, <2>5, Marked, Zenon
    <2>8. \A p \in 0 .. n - 1 :
            /\ array'[p].base = IF p < m THEN array[p].base ELSE 0
            /\ array'[p].check = IF p - b \in C THEN b ELSE IF p < m THEN array[p].check ELSE 0
      <3> SUFFICES ASSUME NEW p \in 0 .. n - 1
                   PROVE  /\ array'[p].base = IF p < m THEN array[p].base ELSE 0
                          /\ array'[p].check = IF p - b \in C THEN b ELSE IF p < m THEN array[p].check ELSE 0
        OBVIOUS
      <3>1. p \in Nat /\ CellAt(p) = IF p < m THEN array[p] ELSE Empty
        BY <1>12, <1>14
      <3>2. CellAt(p) \in [base : Int, check : Nat]
        <4>1. p < m => array[p] \in Cell
          BY <1>5, <1>6, <3>1 DEF ArrayIs
        <4> QED
          BY <3>1, <4>1 DEF Cell, Empty
      <3>3. array'[p] = IF p - b \in C THEN [CellAt(p) EXCEPT !.check = b] ELSE CellAt(p)
        BY <2>5
      <3>4. array'[p].base = CellAt(p).base /\ array'[p].check = IF p - b \in C THEN b ELSE CellAt(p).check
        BY <3>2, <3>3
      <3> QED
        BY <3>1, <3>4 DEF Empty
    <2>9. FindsPlace(keys, values, N, array, size, used, stack, f, b, m, n, h, size', array', g, stack')
      BY <1>1, <1>2, <1>3, <1>4, <1>5, <1>12, <1>16, <1>18, <2>1, <2>3, <2>4, <2>6, <2>7, <2>8, Zenon DEF FindsPlace, C
    <2> QED
      BY <2>4, <2>9, ChildrenPlaced, Zenon
  <1>20. CASE ~fits
    <2>1. array' = Resize(array, n) /\ used' = used /\ size' = size /\ g.begin = 0 /\ used # {}
      BY <1>1, <1>15, <1>16, <1>20
    <2> HIDE DEF n, g, fits
    <2>2. GoesOn(keys, values, N, array, size, used, stack, f, m, n, g, stack')
      BY <1>1, <1>2, <1>3, <1>4, <1>5, <1>12, <1>16, <1>18, <2>1 DEF GoesOn
    <2> QED
      BY <2>1, <2>2, SearchGoesOn
  <1> QED
    BY <1>19, <1>20

(* A key that ends gets its value. *)
WritesLeaf(ks, vs, N, a, n, us, s, f, m, c, v, a2, g, t) ==
  /\ InBytes(ks) /\ n \in Nat /\ Placing(ks, vs, N, a, n, us, s) /\ StackOK(ks, s) /\ s # <<>>
  /\ f = s[1] /\ f.begin > 0 /\ c \in DOMAIN f.siblings /\ ArrayIs(a, m)
  /\ ChildCodes(ks, f.siblings[c]) = {}
  /\ vs[f.siblings[c].left] \in Int /\ vs[f.siblings[c].left] >= 0 /\ v = - vs[f.siblings[c].left] - 1
  /\ a2 = [a EXCEPT ![f.begin + c].base = v] /\ ArrayIs(a2, m)
  /\ g.begin = f.begin /\ g.siblings = f.siblings /\ g.done = f.done \cup {c} /\ ReplacesTop(t, g, s)
LEMMA LeafWritten ==
  ASSUME NEW ks, NEW vs, NEW N, NEW a, NEW n, NEW us, NEW s, NEW f, NEW m, NEW c, NEW v, NEW a2, NEW g, NEW t,
         WritesLeaf(ks, vs, N, a, n, us, s, f, m, c, v, a2, g, t)
  PROVE  Placing(ks, vs, N, a2, n, us, t)
  <1> USE DEF WritesLeaf
  <1>1. /\ DOMAIN N = us /\ Trie(ks, N, a, n)
        /\ \A i \in 1 .. Len(s) : CallRight(ks, N, s, i)
        /\ \A x \in DOMAIN N : \A d \in ChildCodes(ks, N[x]) : RightAt(ks, vs, N, a, x, d) \/ Pending(s, x, d)
        /\ us # {} => 1 \in us /\ N[1] = Root(ks)
    BY DEF Placing
  <1>2. /\ Len(s) \in Nat /\ Len(s) > 0 /\ Len(t) = Len(s) /\ t[1] = g /\ \A i \in 2 .. Len(s) : t[i] = s[i]
    BY TopChanged DEF ReplacesTop
  <1>3. m \in Nat /\ n <= m /\ m >= InitialAlloc /\ m > 0 /\ DOMAIN a = 0 .. m - 1
    BY PlacingCells
  <1> DEFINE b == f.begin
             node == NodeAt(ks, s, 1)
             child == Child(ks, node, c)
  <1>4. /\ b \in DOMAIN N /\ N[b] = node /\ f.siblings = Children(ks, node)
    <2>1. CallRight(ks, N, s, 1)
      BY <1>1, <1>2
    <2> QED
      BY <2>1 DEF CallRight
  <1>5. c \in ChildCodes(ks, N[b]) /\ f.siblings[c] = child
    BY <1>4 DEF Children
  <1>6. WritesChild(ks, vs, N, a, m, n, b, c, v, child, a2)
    <2>1. \A p \in DOMAIN a : {"base", "check"} \subseteq DOMAIN a[p]
      BY <1>3 DEF ArrayIs, Cell
    <2>2. v \in Int
      OBVIOUS
    <2> HIDE DEF child, node
    <2>3. child = Child(ks, N[b], c)
      BY <1>4 DEF child
    <2> QED
      BY <1>1, <1>3, <1>4, <1>5, <2>1, <2>2, <2>3 DEF WritesChild
  <1> HIDE DEF child, node
  <1>7. /\ Trie(ks, N, a2, n) /\ RightAt(ks, vs, N, a2, b, c)
        /\ \A x \in DOMAIN N : \A d \in ChildCodes(ks, N[x]) :
             RightAt(ks, vs, N, a, x, d) => RightAt(ks, vs, N, a2, x, d)
    <2> HIDE DEF WritesLeaf, b
    <2> QED
      BY <1>6, ChildWritten
  <1>8. /\ \A i \in 1 .. Len(s) : NodeAt(ks, t, i) = NodeAt(ks, s, i)
        /\ \A i \in 2 .. Len(s) : CallRight(ks, N, t, i)
    <2>1. SameBehind(s, t) /\ Calls(ks, N, s) /\ Extends(N, N)
      BY <1>1, <1>2 DEF SameBehind, Calls, Extends
    <2> QED
      BY <2>1, CallsKept
  <1>9. CallRight(ks, N, t, 1)
    <2>1. CallRight(ks, N, s, 1) /\ NodeAt(ks, t, 1) = NodeAt(ks, s, 1)
      BY <1>1, <1>2, <1>8
    <2>2. f.begin # 0
      BY <1>1, <1>4 DEF Trie, NodesOK
    <2> QED
      BY <1>2, <2>1, <2>2 DEF CallRight
  <1>10. \A i \in 1 .. Len(t) : CallRight(ks, N, t, i)
    <2>1. ASSUME NEW i \in 1 .. Len(t) PROVE i = 1 \/ i \in 2 .. Len(s)
      BY <1>2
    <2> QED
      BY <1>8, <1>9, <2>1
  <1>11. ASSUME NEW x \in DOMAIN N, NEW d \in ChildCodes(ks, N[x])
         PROVE  RightAt(ks, vs, N, a2, x, d) \/ Pending(t, x, d)
    <2>1. CASE RightAt(ks, vs, N, a, x, d)
      BY <1>7, <2>1, Zenon
    <2>2. CASE Pending(s, x, d)
      <3>1. PICK i \in 1 .. Len(s) : s[i].begin = x /\ d \notin s[i].done
        BY <2>2 DEF Pending
      <3>2. CASE i = 1 /\ d = c
        BY <1>7, <3>1, <3>2, Zenon
      <3>3. CASE i = 1 /\ d # c
        <4>1. t[1].begin = x /\ d \notin t[1].done /\ 1 \in 1 .. Len(t)
          BY <1>2, <3>1, <3>3
        <4> QED
          BY <4>1 DEF Pending
      <3>4. CASE i # 1
        <4>1. t[i] = s[i] /\ i \in 1 .. Len(t)
          BY <1>2, <3>4
        <4> QED
          BY <3>1, <4>1 DEF Pending
      <3> QED
        BY <3>2, <3>3, <3>4
    <2> QED
      BY <1>1, <2>1, <2>2
  <1> QED
    BY <1>1, <1>3, <1>4, <1>7, <1>10, <1>11, Zenon DEF Placing

LEMMA LeafTrie ==
  ASSUME ArrayOK, TrieInv, Leaf PROVE TrieInv'
  <1> DEFINE f == Head(stack)
             c == NextChild(f)
             node == f.siblings[c]
             v == - values[node.left] - 1
             g == [f EXCEPT !.done = @ \cup {c}]
  <1>1. /\ phase = "insert" /\ f.begin > 0 /\ f.done # DOMAIN f.siblings
        /\ ChildCodes(keys, node) = {}
        /\ array' = [array EXCEPT ![f.begin + c].base = v]
        /\ \/ phase' = "failed"
           \/ /\ ~(values[node.left] < 0) /\ stack' = <<g>> \o Tail(stack) /\ UNCHANGED phase
        /\ UNCHANGED <<keys, values, used, size>>
    BY Zenon DEF Leaf
  <1>2. /\ KeysOK /\ stack # <<>> /\ StackOK(keys, stack) /\ size \in Nat /\ InBytes(keys)
    BY <1>1 DEF ArrayOK, TrieInv
  <1>3. PICK N : Placing(keys, values, N, array, size, used, stack)
    BY <1>1 DEF TrieInv
  <1>4. FrameOK(keys, f) /\ f = stack[1]
    <2>1. Head(stack) = stack[1] /\ FrameOK(keys, stack[1])
      BY <1>2, TopChanged, Zenon
    <2> QED
      BY <2>1
  <1>5. c \in DOMAIN f.siblings /\ IsNode(keys, node)
    BY <1>1, <1>4, NextIs
  <1>6. values[node.left] \in Int
    BY <1>2, <1>5 DEF KeysOK, IsNode
  <1>7. PICK m : ArrayIs(array, m)
    BY DEF ArrayOK
  <1>8. ArrayIs(array', m)
    <2> DEFINE p == f.begin + c
    <2>1. v \in Int /\ array' = [array EXCEPT ![p].base = v]
      BY <1>1, <1>6
    <2> HIDE DEF p, v
    <2> QED
      BY <1>7, <2>1, BaseSet, Zenon
  <1>9. g.begin = f.begin /\ g.siblings = f.siblings /\ g.done = f.done \cup {c}
    <2>1. FrameFields \subseteq DOMAIN f
      BY <1>4 DEF FrameOK
    <2> HIDE DEF f, c
    <2> QED
      BY <2>1 DEF FrameFields
  <1>10. CASE phase' = "failed"
    BY <1>10 DEF TrieInv
  <1>11. CASE ~(values[node.left] < 0) /\ stack' = <<g>> \o Tail(stack) /\ UNCHANGED phase
    <2>1. values[node.left] >= 0 /\ ReplacesTop(stack', g, stack)
      BY <1>6, <1>11 DEF ReplacesTop
    <2> HIDE DEF g, f, c
    <2>2. WritesLeaf(keys, values, N, array, size, used, stack, f, m, c, v, array', g, stack')
      BY <1>1, <1>2, <1>3, <1>4, <1>5, <1>6, <1>7, <1>8, <1>9, <2>1 DEF WritesLeaf
    <2>3. Placing(keys, values, N, array', size, used, stack')
      BY <2>2, LeafWritten
    <2> QED
      BY <1>1, <1>2, <1>11, <2>3 DEF TrieInv
  <1> QED
    BY <1>1, <1>10, <1>11, Zenon

(* A child with children of its own is entered. *)
Enters(ks, vs, N, a, n, us, s, f, g, t) ==
  /\ InBytes(ks) /\ Placing(ks, vs, N, a, n, us, s) /\ StackOK(ks, s) /\ s # <<>>
  /\ f = s[1] /\ f.begin > 0 /\ IsBranch(ks, f.siblings[NextChild(f)])
  /\ g.begin = 0 /\ g.done = {} /\ g.siblings = Children(ks, f.siblings[NextChild(f)])
  /\ t = <<g>> \o s
LEMMA ChildEntered ==
  ASSUME NEW ks, NEW vs, NEW N, NEW a, NEW n, NEW us, NEW s, NEW f, NEW g, NEW t,
         Enters(ks, vs, N, a, n, us, s, f, g, t)
  PROVE  Placing(ks, vs, N, a, n, us, t)
  <1> USE DEF Enters
  <1>1. /\ DOMAIN N = us /\ Trie(ks, N, a, n)
        /\ \A i \in 1 .. Len(s) : CallRight(ks, N, s, i)
        /\ \A x \in DOMAIN N : \A d \in ChildCodes(ks, N[x]) : RightAt(ks, vs, N, a, x, d) \/ Pending(s, x, d)
        /\ us # {} => 1 \in us /\ N[1] = Root(ks)
        /\ \E m \in Nat : ArrayIs(a, m) /\ n <= m /\ m >= InitialAlloc
    BY DEF Placing
  <1>2. /\ Len(s) \in Nat /\ Len(s) > 0 /\ Len(t) = Len(s) + 1 /\ t[1] = g
        /\ \A i \in 1 .. Len(s) : t[i + 1] = s[i]
    BY TopAdded
  <1>3. us # {} /\ f.begin # 0
    <2>1. CallRight(ks, N, s, 1)
      BY <1>1, <1>2
    <2>2. f.begin # 0
      OBVIOUS
    <2>3. f.begin \in DOMAIN N
      BY <2>1, <2>2 DEF CallRight
    <2> QED
      BY <1>1, <2>2, <2>3
  <1>4. CallRight(ks, N, t, 1)
    <2>1. NodeAt(ks, t, 1) = f.siblings[NextChild(f)]
      <3>1. 1 # Len(t) /\ t[1 + 1] = s[1]
        BY <1>2
      <3> QED
        BY <3>1 DEF NodeAt
    <2> QED
      BY <1>2, <2>1 DEF CallRight
  <1>5. ASSUME NEW i \in 1 .. Len(s) PROVE CallRight(ks, N, t, i + 1)
    <2>1. CallRight(ks, N, s, i) /\ t[i + 1] = s[i]
      BY <1>1, <1>2
    <2>2. NodeAt(ks, t, i + 1) = NodeAt(ks, s, i)
      <3>1. CASE i = Len(s)
        BY <1>2, <3>1 DEF NodeAt
      <3>2. CASE i # Len(s)
        <4>1. i + 1 \in 1 .. Len(s) /\ i + 1 # Len(t)
          BY <1>2, <3>2
        <4>2. t[(i + 1) + 1] = s[i + 1]
          BY <1>2, <4>1
        <4> QED
          BY <3>2, <4>1, <4>2 DEF NodeAt
      <3> QED
        BY <3>1, <3>2
    <2>3. s[i].begin # 0
      <3>1. CASE i = 1
        BY <1>3, <3>1
      <3>2. CASE i # 1
        BY <2>1, <3>2 DEF CallRight
      <3> QED
        BY <3>1, <3>2
    <2> QED
      BY <2>1, <2>2, <2>3 DEF CallRight
  <1>6. \A i \in 1 .. Len(t) : CallRight(ks, N, t, i)
    <2> SUFFICES ASSUME NEW i \in 1 .. Len(t) PROVE CallRight(ks, N, t, i)
      OBVIOUS
    <2>1. CASE i = 1
      BY <1>4, <2>1
    <2>2. CASE i # 1
      <3>1. i - 1 \in 1 .. Len(s) /\ (i - 1) + 1 = i
        BY <1>2, <2>2
      <3>2. CallRight(ks, N, t, (i - 1) + 1)
        BY <1>5, <3>1
      <3> QED
        BY <3>1, <3>2
    <2> QED
      BY <2>1, <2>2
  <1>7. ASSUME NEW x \in DOMAIN N, NEW d \in ChildCodes(ks, N[x]), Pending(s, x, d) PROVE Pending(t, x, d)
    <2>1. PICK i \in 1 .. Len(s) : s[i].begin = x /\ d \notin s[i].done
      BY <1>7 DEF Pending
    <2>2. i + 1 \in 1 .. Len(t) /\ t[i + 1] = s[i]
      BY <1>2
    <2> QED
      BY <2>1, <2>2 DEF Pending
  <1> QED
    BY <1>1, <1>3, <1>6, <1>7, Zenon DEF Placing

LEMMA EnterTrie ==
  ASSUME ArrayOK, TrieInv, Enter PROVE TrieInv'
  <1> DEFINE f == Head(stack)
             node == f.siblings[NextChild(f)]
             g == Call(Children(keys, node), next_check_pos)
  <1>1. /\ phase = "insert" /\ f.begin > 0 /\ f.done # DOMAIN f.siblings /\ ChildCodes(keys, node) # {}
        /\ \/ phase' = "failed"
           \/ Sorted(keys, node) /\ stack' = <<g>> \o stack /\ UNCHANGED phase
        /\ UNCHANGED <<keys, values, array, used, size>>
    BY DEF Enter
  <1>2. /\ stack # <<>> /\ StackOK(keys, stack) /\ InBytes(keys)
    BY <1>1 DEF ArrayOK, TrieInv
  <1>3. PICK N : Placing(keys, values, N, array, size, used, stack)
    BY <1>1 DEF TrieInv
  <1>4. FrameOK(keys, f) /\ f = stack[1]
    <2>1. Head(stack) = stack[1] /\ FrameOK(keys, stack[1])
      BY <1>2, TopChanged, Zenon
    <2> QED
      BY <2>1
  <1>5. IsNode(keys, node)
    BY <1>1, <1>4, NextIs
  <1>6. g.begin = 0 /\ g.done = {} /\ g.siblings = Children(keys, node)
    BY DEF Call
  <1>7. CASE phase' = "failed"
    BY <1>7 DEF TrieInv
  <1>8. CASE Sorted(keys, node) /\ stack' = <<g>> \o stack /\ UNCHANGED phase
    <2>1. IsBranch(keys, node)
      BY <1>1, <1>5, <1>8 DEF IsBranch
    <2> HIDE DEF g, f
    <2>2. Enters(keys, values, N, array, size, used, stack, f, g, stack')
      BY <1>1, <1>2, <1>3, <1>4, <1>6, <1>8, <2>1 DEF Enters
    <2>3. Placing(keys, values, N, array, size, used, stack')
      BY <2>2, ChildEntered
    <2> QED
      BY <1>1, <1>2, <1>8, <2>3 DEF TrieInv
  <1> QED
    BY <1>1, <1>7, <1>8

(* A call returns to the one that made it. *)
ReturnsTo(ks, vs, N, a, n, us, s, f, e, m, c, a2, g, t) ==
  /\ InBytes(ks) /\ n \in Nat /\ Placing(ks, vs, N, a, n, us, s) /\ StackOK(ks, s) /\ s # <<>> /\ Len(s) > 1
  /\ f = s[1] /\ f.begin > 0 /\ f.done = DOMAIN f.siblings /\ e = s[2] /\ c = NextChild(e)
  /\ ArrayIs(a, m) /\ a2 = [a EXCEPT ![e.begin + c].base = f.begin] /\ ArrayIs(a2, m)
  /\ g.begin = e.begin /\ g.siblings = e.siblings /\ g.done = e.done \cup {c}
  /\ ReturnsTop(t, g, s)
LEMMA ReturnedTo ==
  ASSUME NEW ks, NEW vs, NEW N, NEW a, NEW n, NEW us, NEW s, NEW f, NEW e, NEW m, NEW c, NEW a2, NEW g, NEW t,
         ReturnsTo(ks, vs, N, a, n, us, s, f, e, m, c, a2, g, t)
  PROVE  Placing(ks, vs, N, a2, n, us, t)
  <1> USE DEF ReturnsTo
  <1>1. /\ DOMAIN N = us /\ Trie(ks, N, a, n)
        /\ \A i \in 1 .. Len(s) : CallRight(ks, N, s, i)
        /\ \A x \in DOMAIN N : \A d \in ChildCodes(ks, N[x]) : RightAt(ks, vs, N, a, x, d) \/ Pending(s, x, d)
        /\ us # {} => 1 \in us /\ N[1] = Root(ks)
    BY DEF Placing
  <1>2. /\ Len(s) \in Nat /\ FrameOK(ks, f) /\ FrameOK(ks, e) /\ e.done # DOMAIN e.siblings
        /\ Len(t) = Len(s) - 1 /\ t[1] = g /\ \A i \in 2 .. Len(s) - 1 : t[i] = s[i + 1]
    <2>1. StackOK(ks, s) /\ s # <<>> /\ Len(s) > 1 /\ f = s[1] /\ e = s[2] /\ ReturnsTop(t, g, s)
      OBVIOUS
    <2> HIDE DEF ReturnsTo
    <2>2. /\ Len(s) \in Nat /\ FrameOK(ks, s[1]) /\ FrameOK(ks, s[2]) /\ s[2].done # DOMAIN s[2].siblings
          /\ Len(t) = Len(s) - 1 /\ t[1] = g /\ \A i \in 2 .. Len(s) - 1 : t[i] = s[i + 1]
      BY <2>1, TopReturned
    <2> QED
      BY <2>1, <2>2
  <1>3. m \in Nat /\ n <= m /\ m >= InitialAlloc /\ m > 0 /\ DOMAIN a = 0 .. m - 1
    <2>1. n \in Nat /\ Placing(ks, vs, N, a, n, us, s) /\ ArrayIs(a, m)
      OBVIOUS
    <2> HIDE DEF ReturnsTo
    <2> QED
      BY <2>1, PlacingCells
  <1>4. CallRight(ks, N, s, 1) /\ CallRight(ks, N, s, 2)
    <2>1. 1 \in 1 .. Len(s) /\ 2 \in 1 .. Len(s)
      BY <1>2
    <2> QED
      BY <1>1, <2>1
  <1> DEFINE b == e.begin
             v == f.begin
             node == NodeAt(ks, s, 2)
             child == NodeAt(ks, s, 1)
  <1>5. v \in DOMAIN N /\ N[v] = child /\ IsBranch(ks, child) /\ DOMAIN f.siblings = ChildCodes(ks, child)
    <2>1. f.begin # 0
      OBVIOUS
    <2> QED
      BY <1>4, <2>1 DEF CallRight, Children
  <1>6. b \in DOMAIN N /\ N[b] = node /\ e.siblings = Children(ks, node) /\ b # 0
    <2>1. e.begin # 0
      BY <1>4 DEF CallRight
    <2> QED
      BY <1>4, <2>1 DEF CallRight
  <1>7. c \in DOMAIN e.siblings /\ c \in ChildCodes(ks, N[b]) /\ child = Child(ks, N[b], c)
    <2>1. c \in DOMAIN e.siblings
      BY <1>2, NextIs
    <2>2. 1 # Len(s) /\ child = s[2].siblings[NextChild(s[2])]
      BY <1>2 DEF NodeAt
    <2>3. child = e.siblings[c]
      BY <2>2
    <2> QED
      BY <1>6, <2>1, <2>3 DEF Children
  <1>8. WritesChild(ks, vs, N, a, m, n, b, c, v, child, a2)
    <2>1. \A p \in DOMAIN a : {"base", "check"} \subseteq DOMAIN a[p]
      BY <1>3 DEF ArrayIs, Cell
    <2>2. v \in Int
      BY <1>2 DEF FrameOK
    <2>3. ChildCodes(ks, child) # {}
      BY <1>5 DEF IsBranch
    <2> HIDE DEF child, node
    <2> QED
      BY <1>1, <1>3, <1>5, <1>6, <1>7, <2>1, <2>2, <2>3 DEF WritesChild
  <1> HIDE DEF child, node, v, b
  <1>9. /\ Trie(ks, N, a2, n) /\ RightAt(ks, vs, N, a2, b, c)
        /\ \A x \in DOMAIN N : \A d \in ChildCodes(ks, N[x]) :
             RightAt(ks, vs, N, a, x, d) => RightAt(ks, vs, N, a2, x, d)
    <2> HIDE DEF ReturnsTo
    <2> QED
      BY <1>8, ChildWritten
  <1>10. ASSUME NEW i \in 1 .. Len(t) PROVE NodeAt(ks, t, i) = NodeAt(ks, s, i + 1)
    <2>1. CASE i = Len(t)
      <3>1. i + 1 = Len(s)
        BY <1>2, <2>1
      <3> QED
        BY <2>1, <3>1 DEF NodeAt
    <2>2. CASE i # Len(t)
      <3>1. i + 1 \in 2 .. Len(s) - 1 /\ i + 1 # Len(s)
        BY <1>2, <2>2
      <3>2. t[i + 1] = s[(i + 1) + 1]
        BY <1>2, <3>1
      <3> QED
        BY <2>2, <3>1, <3>2 DEF NodeAt
    <2> QED
      BY <2>1, <2>2
  <1>11. ASSUME NEW i \in 1 .. Len(t) PROVE CallRight(ks, N, t, i)
    <2>1. NodeAt(ks, t, i) = NodeAt(ks, s, i + 1) /\ i + 1 \in 1 .. Len(s) /\ i + 1 # 1
      BY <1>2, <1>10
    <2>2. CallRight(ks, N, s, i + 1)
      BY <1>1, <2>1
    <2>3. CASE i = 1
      <3>1. i + 1 = 2 /\ t[i] = g
        BY <1>2, <2>3
      <3>2. g.begin # 0 /\ g.begin = s[i + 1].begin /\ g.siblings = s[i + 1].siblings
        BY <1>6, <3>1 DEF b
      <3> QED
        BY <2>1, <2>2, <3>1, <3>2 DEF CallRight
    <2>4. CASE i # 1
      <3>1. t[i] = s[i + 1]
        BY <1>2, <2>4
      <3> QED
        BY <2>1, <2>2, <3>1 DEF CallRight
    <2> QED
      BY <2>3, <2>4
  <1>12. ASSUME NEW x \in DOMAIN N, NEW d \in ChildCodes(ks, N[x])
         PROVE  RightAt(ks, vs, N, a2, x, d) \/ Pending(t, x, d)
    <2>1. CASE RightAt(ks, vs, N, a, x, d)
      BY <1>9, <2>1, Zenon
    <2>2. CASE Pending(s, x, d)
      <3>1. PICK i \in 1 .. Len(s) : s[i].begin = x /\ d \notin s[i].done
        BY <2>2 DEF Pending
      <3>2. i # 1
        <4>1. ASSUME i = 1 PROVE FALSE
          <5>1. x = v
            BY <3>1, <4>1 DEF v
          <5>2. d \in DOMAIN f.siblings
            BY <1>5, <5>1
          <5> QED
            BY <3>1, <4>1, <5>2
        <4> QED
          BY <4>1
      <3>3. CASE i = 2 /\ d = c
        <4>1. x = b
          BY <3>1, <3>3 DEF b
        <4> QED
          BY <1>9, <3>3, <4>1
      <3>4. CASE i = 2 /\ d # c
        <4>1. t[1].begin = x /\ d \notin t[1].done /\ 1 \in 1 .. Len(t)
          BY <1>2, <3>1, <3>4
        <4> QED
          BY <4>1 DEF Pending
      <3>5. CASE i # 2
        <4>1. i - 1 \in 2 .. Len(s) - 1 /\ (i - 1) + 1 = i
          BY <1>2, <3>2, <3>5
        <4> DEFINE j == i - 1
        <4>2. j \in 2 .. Len(s) - 1 /\ j + 1 = i /\ j \in 1 .. Len(t)
          BY <1>2, <4>1
        <4> HIDE DEF j
        <4>3. t[j] = s[i]
          BY <1>2, <4>2
        <4>4. t[j].begin = x /\ d \notin t[j].done
          BY <3>1, <4>3
        <4> QED
          BY <4>2, <4>4 DEF Pending
      <3> QED
        BY <3>3, <3>4, <3>5
    <2> QED
      BY <1>1, <2>1, <2>2
  <1> QED
    BY <1>1, <1>3, <1>5, <1>9, <1>11, <1>12, Zenon DEF Placing

(* The outermost call returns. *)
Ends(ks, vs, N, a, n, us, s, f, m, n2, k) ==
  /\ InBytes(ks) /\ n \in Nat /\ Placing(ks, vs, N, a, n, us, s) /\ StackOK(ks, s) /\ s # <<>> /\ ~(Len(s) > 1)
  /\ f = s[1] /\ f.begin > 0 /\ f.done = DOMAIN f.siblings
  /\ ArrayIs(a, m) /\ n2 = n + MaxByte + 2 /\ k = Larger(m, n2)
LEMMA AllPlaced ==
  ASSUME NEW ks, NEW vs, NEW N, NEW a, NEW n, NEW us, NEW s, NEW f, NEW m, NEW n2, NEW k,
         Ends(ks, vs, N, a, n, us, s, f, m, n2, k)
  PROVE  IsPlaced(ks, vs, N, Resize(a, k), n2)
  <1> USE DEF Ends
  <1>1. /\ DOMAIN N = us /\ Trie(ks, N, a, n)
        /\ \A i \in 1 .. Len(s) : CallRight(ks, N, s, i)
        /\ \A x \in DOMAIN N : \A d \in ChildCodes(ks, N[x]) : RightAt(ks, vs, N, a, x, d) \/ Pending(s, x, d)
        /\ us # {} => 1 \in us /\ N[1] = Root(ks)
    BY DEF Placing
  <1>2. Len(s) \in Nat /\ Len(s) = 1 /\ MaxByte \in Nat
    <2>1. s # <<>> /\ ~(Len(s) > 1) /\ StackOK(ks, s)
      OBVIOUS
    <2> HIDE DEF Ends
    <2>2. PICK S : s \in Seq(S)
      BY <2>1 DEF StackOK
    <2>3. Len(s) \in Nat /\ Len(s) > 0
      BY <2>1, <2>2
    <2>4. Len(s) = 1
      BY <2>1, <2>3
    <2>5. MaxByte \in Nat
      BY ArrayConstants
    <2> QED
      BY <2>3, <2>4, <2>5
  <1>3. m \in Nat /\ n <= m /\ m >= InitialAlloc /\ m > 0 /\ DOMAIN a = 0 .. m - 1
    <2>1. n \in Nat /\ Placing(ks, vs, N, a, n, us, s) /\ ArrayIs(a, m)
      OBVIOUS
    <2> HIDE DEF Ends
    <2> QED
      BY <2>1, PlacingCells
  <1>4. k \in Nat /\ k >= m /\ n2 \in Nat /\ n2 >= n /\ n2 <= k
    BY <1>2, <1>3 DEF Larger
  <1>5. CallRight(ks, N, s, 1) /\ 1 \in 1 .. Len(s)
    BY <1>1, <1>2
  <1>6. f.begin \in DOMAIN N /\ N[f.begin] = NodeAt(ks, s, 1) /\ DOMAIN f.siblings = ChildCodes(ks, NodeAt(ks, s, 1))
    <2>1. f.begin # 0
      OBVIOUS
    <2> QED
      BY <1>5, <2>1 DEF CallRight, Children
  <1>7. /\ Trie(ks, N, Resize(a, k), n2)
        /\ \A x \in DOMAIN N : \A c \in ChildCodes(ks, N[x]) :
             RightAt(ks, vs, N, a, x, c) => RightAt(ks, vs, N, Resize(a, k), x, c)
    <2>1. HasCells(a, m, n)
      BY <1>3 DEF HasCells
    <2>2. GrowsTo(ks, N, a, m, n, k, n2)
      BY <1>1, <1>4, <2>1 DEF GrowsTo
    <2> HIDE DEF Ends
    <2> QED
      BY <2>2, TrieGrown
  <1>8. ArrayIs(Resize(a, k), k)
    BY <1>4, ResizedIs
  <1>9. ASSUME NEW x \in DOMAIN N, NEW d \in ChildCodes(ks, N[x]) PROVE RightAt(ks, vs, N, Resize(a, k), x, d)
    <2>1. ~Pending(s, x, d)
      <3> SUFFICES ASSUME NEW i \in 1 .. Len(s), s[i].begin = x, d \notin s[i].done PROVE FALSE
        BY DEF Pending
      <3>1. i = 1
        BY <1>2
      <3> QED
        BY <1>6, <3>1
    <2> QED
      BY <1>1, <1>7, <2>1
  <1>10. ASSUME NEW x \in DOMAIN N PROVE x + MaxByte + 1 < n2
    <2>1. x \in Nat /\ IsBranch(ks, N[x]) /\ \A c \in ChildCodes(ks, N[x]) : x + c < n
      BY <1>1 DEF Trie, NodesOK, Inside
    <2>2. PICK c : c \in ChildCodes(ks, N[x])
      BY <2>1 DEF IsBranch
    <2>3. c \in Nat
      BY <2>1, <2>2, CodesInside DEF IsBranch
    <2>4. x < n
      BY <2>1, <2>2, <2>3
    <2> QED
      BY <1>2, <2>1, <2>4
  <1> HIDE DEF Ends
  <1> QED
    BY <1>1, <1>4, <1>6, <1>7, <1>8, <1>9, <1>10 DEF IsPlaced

LEMMA ReturnTrie ==
  ASSUME ArrayOK, TrieInv, Return PROVE TrieInv'
  <1> DEFINE f == Head(stack)
             e == stack[2]
             c == NextChild(e)
             g == [e EXCEPT !.done = @ \cup {c}]
  <1>1. /\ phase = "insert" /\ f.begin > 0 /\ f.done = DOMAIN f.siblings
        /\ Len(stack) > 1 =>
             /\ array' = [array EXCEPT ![e.begin + c].base = f.begin]
             /\ stack' = <<g>> \o SubSeq(stack, 3, Len(stack))
             /\ UNCHANGED <<size, used, phase>>
        /\ ~(Len(stack) > 1) =>
             /\ size' = size + MaxByte + 2
             /\ array' = Resize(array, Larger(alloc, size')) /\ phase' = "built"
        /\ UNCHANGED <<keys, values>>
    BY Zenon DEF Return
  <1>2. /\ stack # <<>> /\ StackOK(keys, stack) /\ size \in Nat /\ InBytes(keys)
    BY <1>1 DEF ArrayOK, TrieInv
  <1>3. PICK N : Placing(keys, values, N, array, size, used, stack)
    BY <1>1 DEF TrieInv
  <1>4. /\ FrameOK(keys, f) /\ f = stack[1] /\ Len(stack) \in Nat
        /\ Len(stack) > 1 => FrameOK(keys, e) /\ e.done # DOMAIN e.siblings
    <2>1. Head(stack) = stack[1] /\ FrameOK(keys, stack[1])
      BY <1>2, TopChanged, Zenon
    <2> QED
      BY <1>2, <2>1, StackTop
  <1>5. PICK m : ArrayIs(array, m)
    BY DEF ArrayOK
  <1>6. CASE Len(stack) > 1
    <2>1. ArrayIs(array', m)
      <3> DEFINE p == e.begin + c
                 b == f.begin
      <3>1. b \in Int /\ array' = [array EXCEPT ![p].base = b]
        BY <1>1, <1>4, <1>6 DEF FrameOK
      <3> HIDE DEF p, b
      <3> QED
        BY <1>5, <3>1, BaseSet, Zenon
    <2>2. g.begin = e.begin /\ g.siblings = e.siblings /\ g.done = e.done \cup {c}
      <3>1. FrameFields \subseteq DOMAIN e
        BY <1>4, <1>6 DEF FrameOK
      <3> HIDE DEF e, c
      <3> QED
        BY <3>1 DEF FrameFields
    <2>3. e = stack[2] /\ c = NextChild(e) /\ ReturnsTop(stack', g, stack)
      BY <1>1, <1>6, Zenon DEF ReturnsTop
    <2> HIDE DEF f, e, c, g
    <2>4. ReturnsTo(keys, values, N, array, size, used, stack, f, e, m, c, array', g, stack')
      BY <1>1, <1>2, <1>3, <1>4, <1>5, <1>6, <2>1, <2>2, <2>3 DEF ReturnsTo
    <2>5. Placing(keys, values, N, array', size, used, stack')
      BY <2>4, ReturnedTo
    <2> QED
      BY <1>1, <1>2, <1>6, <2>5 DEF TrieInv
  <1>7. CASE ~(Len(stack) > 1)
    <2> DEFINE k == Larger(alloc, size')
    <2>1. alloc = m
      BY <1>5, AllocIs
    <2>2. size' = size + MaxByte + 2 /\ array' = Resize(array, k) /\ phase' = "built" /\ k = Larger(m, size')
      BY <1>1, <1>7, <2>1
    <2> HIDE DEF k, f
    <2>3. Ends(keys, values, N, array, size, used, stack, f, m, size', k)
      BY <1>1, <1>2, <1>3, <1>4, <1>5, <1>7, <2>2 DEF Ends
    <2>4. IsPlaced(keys, values, N, array', size')
      BY <2>2, <2>3, AllPlaced
    <2> QED
      BY <1>1, <1>2, <2>2, <2>4 DEF TrieInv
  <1> QED
    BY <1>6, <1>7

(* Nothing is placed when build begins. *)
LEMMA NothingPlaced ==
  ASSUME NEW ks, NEW vs, NEW a, NEW g, InBytes(ks), ks # <<>>, Sorted(ks, Root(ks)),
         a = [Resize(<<>>, InitialAlloc) EXCEPT ![0].base = 1], g = Call(Children(ks, Root(ks)), 0)
  PROVE  \E N : Placing(ks, vs, N, a, 0, {}, <<g>>)
  <1> DEFINE root == Root(ks)
             blank == Resize(<<>>, InitialAlloc)
             s == <<g>>
             N == [x \in {} |-> 0]
  <1>1. Len(ks) \in Nat /\ Len(ks) > 0 /\ InitialAlloc \in Nat /\ InitialAlloc > 0
    BY Growing DEF InBytes
  <1>2. IsNode(ks, root) /\ root.depth = 0 /\ root.left = 1 /\ root.right = Len(ks) + 1
    BY <1>1 DEF Root, IsNode
  <1> HIDE DEF root
  <1>3. ChildCodes(ks, root) # {}
    <2>1. ks[1] \in Seq(Bytes) /\ 1 \in root.left .. root.right - 1
      BY <1>1, <1>2 DEF InBytes
    <2>2. 1 \in Held(ks, root.left, root.right, root.depth)
      BY <1>2, <2>1 DEF Held
    <2> QED
      BY <2>2 DEF ChildCodes
  <1>4. IsBranch(ks, root)
    BY <1>2, <1>3 DEF IsBranch, root
  <1>5. AreNodes(ks, Children(ks, root)) /\ DOMAIN Children(ks, root) = ChildCodes(ks, root)
    BY <1>2, <1>3, ChildrenAre, Zenon DEF InBytes, Children
  <1>6. g.siblings = Children(ks, root) /\ g.begin = 0 /\ g.done = {} /\ g.pos = g.low
    <2> DEFINE nodes == Children(ks, root)
               low == CHOOSE c \in DOMAIN nodes : \A d \in DOMAIN nodes : c <= d
    <2>1. \E c \in DOMAIN nodes : \A d \in DOMAIN nodes : c <= d
      BY <1>5, Smallest DEF AreNodes
    <2>2. low \in Nat
      BY <1>5, <2>1 DEF AreNodes
    <2>3. g = [siblings |-> nodes, low |-> low, pos |-> Larger(low + 1, 0) - 1,
               nonzero_num |-> 0, first |-> TRUE, begin |-> 0, done |-> {}]
      BY DEF Call, root
    <2> HIDE DEF low, nodes
    <2>4. Larger(low + 1, 0) - 1 = low
      BY <2>2 DEF Larger
    <2> QED
      BY <2>3, <2>4 DEF nodes
  <1>7. /\ DOMAIN a = 0 .. InitialAlloc - 1 /\ a[0].base = 1
        /\ \A p \in DOMAIN a : a[p].check = 0 /\ (p # 0 => a[p].base = 0)
    <2>1. blank = [p \in 0 .. InitialAlloc - 1 |-> Empty]
      BY DEF Resize
    <2> HIDE DEF blank
    <2>2. a = [blank EXCEPT ![0].base = 1] /\ 0 \in DOMAIN blank
      BY <1>1, <2>1 DEF blank
    <2>3. DOMAIN a = DOMAIN blank
          /\ \A p \in DOMAIN a : a[p].check = Empty.check /\ a[p].base = IF p = 0 THEN 1 ELSE Empty.base
      BY <2>1, <2>2, Zenon DEF Empty
    <2> QED
      BY <2>1, <2>2, <2>3, Zenon DEF Empty
  <1>8. ArrayIs(a, InitialAlloc)
    <2>1. ArrayIs(blank, InitialAlloc) /\ 1 \in Int
      BY <1>1, NoArray, ResizedIs
    <2> HIDE DEF blank
    <2> QED
      BY <2>1, BaseWritten, Zenon DEF blank
  <1>9. DOMAIN N = {}
    OBVIOUS
  <1>10. Len(s) = 1 /\ s[1] = g
    OBVIOUS
  <1> HIDE DEF N, s, blank
  <1>11. Trie(ks, N, a, 0)
    BY <1>7, <1>9 DEF Trie, NodesOK, Inside, ChecksRight, BasesRight
  <1>12. CallRight(ks, N, s, 1)
    BY <1>4, <1>6, <1>10 DEF CallRight, NodeAt, root
  <1>13. \A i \in 1 .. Len(s) : CallRight(ks, N, s, i)
    BY <1>10, <1>12
  <1> HIDE DEF root
  <1>14. Placing(ks, vs, N, a, 0, {}, s)
    BY <1>1, <1>6, <1>8, <1>9, <1>10, <1>11, <1>13 DEF Placing
  <1> QED
    BY <1>14 DEF s

LEMMA BuildTrie ==
  ASSUME NEW ks, NEW vs, InBytes(ks), Build(ks, vs) PROVE TrieInv'
  <1> DEFINE root == [depth |-> 0, left |-> 1, right |-> Len(ks) + 1]
             g == Call(Children(ks, root), 0)
             blank == [Resize(<<>>, InitialAlloc) EXCEPT ![0].base = 1]
  <1>1. /\ keys' = ks /\ values' = vs /\ size' = 0 /\ used' = {}
        /\ ks = <<>> => phase' = "built"
        /\ ks # <<>> => /\ array' = blank
                        /\ \/ Sorted(ks, root) /\ stack' = <<g>> /\ phase' = "insert"
                           \/ phase' = "failed"
    BY DEF Build
  <1>2. root = Root(ks)
    BY DEF Root
  <1> HIDE DEF root
  <1>3. CASE phase' = "insert"
    <2>1. ks # <<>> /\ Sorted(ks, Root(ks)) /\ array' = blank /\ stack' = <<g>>
      BY <1>1, <1>2, <1>3
    <2>2. \E N : Placing(ks, vs, N, blank, 0, {}, <<g>>)
      BY <1>2, <2>1, NothingPlaced, Zenon
    <2> HIDE DEF g, blank
    <2>3. PICK N : Placing(ks, vs, N, blank, 0, {}, <<g>>)
      BY <2>2
    <2>4. Placing(keys', values', N, array', size', used', stack')
      BY <1>1, <2>1, <2>3
    <2> QED
      BY <1>1, <1>3, <2>4 DEF TrieInv
  <1>4. CASE phase' # "insert"
    BY <1>1, <1>4 DEF TrieInv
  <1> QED
    BY <1>3, <1>4

LEMMA TrieSame ==
  ASSUME UNCHANGED arrayVars, TrieInv PROVE TrieInv'
  <1>1. UNCHANGED <<keys, values, array, used, size, stack, phase>>
    BY DEF arrayVars
  <1> QED
    BY <1>1 DEF TrieInv

LEMMA TrieGone ==
  ASSUME ArrayClear \/ ArrayInit' PROVE TrieInv'
  <1>1. phase' = "idle"
    BY DEF ArrayClear, ArrayInit
  <1> QED
    BY <1>1 DEF TrieInv

(* The keys are the words and the values say where their tokens are. *)
KeysAt == phase \in {"insert", "built"} => keys = WordsOf(job.dic) /\ values = ValuesOf(job.dic)

LEMMA TrieKept ==
  ASSUME TypeInv, TrieInv, [Next]_vars PROVE TrieInv'
  <1>0. WordsInv /\ JobAt /\ ArrayOK
    BY DEF TypeInv, WordsInv
  <1>1. CASE UNCHANGED arrayVars
    BY <1>1, TrieSame
  <1>2. CASE BuildArray
    <2>1. job # NoJob /\ Build(WordsOf(job.dic), ValuesOf(job.dic))
      BY <1>2, Zenon DEF BuildArray, EndOfLines
    <2>2. AreEntries(job.dic, job.lsize, job.rsize)
      BY <1>0, <2>1 DEF JobAt, IsJob
    <2>3. InBytes(WordsOf(job.dic))
      BY <2>2, WordsAre DEF InBytes
    <2> QED
      BY <2>1, <2>3, BuildTrie
  <1>3. CASE InArray
    <2>1. ArrayStep
      BY <1>3 DEF InArray
    <2> QED
      BY <1>0, <2>1, ProbeTrie, LeafTrie, EnterTrie, ReturnTrie DEF ArrayStep
  <1>4. CASE GrowFails \/ WriteDictionary \/ Crash
    <2>1. ArrayClear
      BY <1>4, Zenon DEF GrowFails, WriteDictionary, Crash
    <2> QED
      BY <2>1, TrieGone
  <1>5. CASE UNCHANGED vars
    BY <1>5, TrieSame DEF vars
  <1>6. ASSUME Rest \/ Run("system") \/ Run("user") \/ Edit \/ LineFails \/ NoWord \/ Finish \/ Fill
               \/ WriteFails \/ Close \/ ReadLines
        PROVE  UNCHANGED arrayVars
    BY <1>6, Zenon DEF Rest, Run, Edit, LineFails, NoWord, Finish, Fill, WriteFails, Close, ReadLines,
           ReadLine, vars
  <1>7. ASSUME CompileCharBin \/ CompileMatrixBin \/ BeginDictionary PROVE UNCHANGED arrayVars
    BY <1>7, Zenon DEF CompileCharBin, CompileMatrixBin, BeginDictionary
  <1> QED
    BY <1>1, <1>2, <1>3, <1>4, <1>5, <1>6, <1>7 DEF Next

(* The keys that begin like the text in its first i bytes, and the node    *)
(* that has them all.                                                      *)
Starting(ks, text, i) == {k \in 1 .. Len(ks) : Len(ks[k]) >= i /\ \A j \in 1 .. i : ks[k][j] = text[j]}
Covers(ks, node, text, i) == node.depth = i /\ node.left .. node.right - 1 = Starting(ks, text, i)

(* The keys of a child are those of the node with its code. *)
LEMMA ChildHas ==
  ASSUME NEW ks, InBytes(ks), NEW node, IsBranch(ks, node),
         \A k \in node.left .. node.right - 1 : Len(ks[k]) >= node.depth,
         NEW c \in ChildCodes(ks, node)
  PROVE  /\ Child(ks, node, c).depth = node.depth + 1
         /\ Child(ks, node, c).left .. Child(ks, node, c).right - 1
              = {k \in node.left .. node.right - 1 : CodeOf(ks, k, node.depth) = c}
         /\ Child(ks, node, c).left \in Child(ks, node, c).left .. Child(ks, node, c).right - 1
  <1> DEFINE H == Held(ks, node.left, node.right, node.depth)
             code(k) == CodeOf(ks, k, node.depth)
             P == {k \in H : code(k) = c}
             Q == {k \in H : code(k) > c}
             left == CHOOSE i \in H : code(i) = c /\ \A j \in H : code(j) = c => i <= j
             behind == CHOOSE i \in H : code(i) > c /\ \A j \in H : code(j) > c => i <= j
             right == IF \E i \in H : code(i) > c THEN behind ELSE node.right
  <1>1. /\ IsNode(ks, node) /\ H \subseteq 1 .. Len(ks) /\ \A k \in H : code(k) \in Nat
        /\ c \in Nat /\ H = node.left .. node.right - 1
    <2>1. IsNode(ks, node)
      BY DEF IsBranch
    <2>2. H \subseteq 1 .. Len(ks) /\ (\A k \in H : code(k) \in Codes) /\ ChildCodes(ks, node) \subseteq Codes
          /\ Codes \subseteq Nat
      BY <2>1, CodesInside
    <2>3. H = node.left .. node.right - 1
      BY DEF Held
    <2> QED
      BY <2>1, <2>2, <2>3, Zenon
  <1>2. \A i, j \in H : i < j => code(i) <= code(j)
    BY DEF IsBranch, Sorted
  <1>3. Child(ks, node, c) = [depth |-> node.depth + 1, left |-> left, right |-> right]
    BY DEF Child
  <1>4. \E i \in H : code(i) = c
    BY DEF ChildCodes
  <1> HIDE DEF code, H
  <1>5. left \in H /\ code(left) = c /\ \A j \in H : code(j) = c => left <= j
    <2>1. P \subseteq Nat /\ P # {}
      BY <1>1, <1>4
    <2>2. \E i \in P : \A j \in P : i <= j
      <3> HIDE DEF P
      <3> QED
        BY <2>1, Smallest, Zenon
    <2>3. \E i \in H : code(i) = c /\ \A j \in H : code(j) = c => i <= j
      BY <2>2
    <2> QED
      BY <2>3
  <1>6. (\E i \in H : code(i) > c) => behind \in H /\ code(behind) > c /\ \A j \in H : code(j) > c => behind <= j
    <2> SUFFICES ASSUME \E i \in H : code(i) > c
                 PROVE  behind \in H /\ code(behind) > c /\ \A j \in H : code(j) > c => behind <= j
      OBVIOUS
    <2>1. Q \subseteq Nat /\ Q # {}
      BY <1>1
    <2>2. \E i \in Q : \A j \in Q : i <= j
      <3> HIDE DEF Q
      <3> QED
        BY <2>1, Smallest, Zenon
    <2>3. \E i \in H : code(i) > c /\ \A j \in H : code(j) > c => i <= j
      BY <2>2
    <2> QED
      BY <2>3
  <1> HIDE DEF left, behind
  <1>7. node.left \in Nat /\ node.right \in Nat /\ node.depth \in Nat /\ \A k \in H : k \in Nat /\ k >= node.left /\ k < node.right
    BY <1>1 DEF IsNode
  <1>8. right \in Nat /\ right <= node.right /\ left < right
    <2>1. CASE \E i \in H : code(i) > c
      <3>1. right = behind /\ behind \in H /\ code(behind) > c
        BY <1>6, <2>1
      <3>2. ~(behind <= left)
        <4>1. behind # left
          BY <1>1, <1>5, <3>1
        <4>2. behind < left => code(behind) <= code(left)
          BY <1>2, <1>5, <3>1
        <4> QED
          BY <1>1, <1>5, <1>7, <3>1, <4>1, <4>2
      <3> QED
        BY <1>5, <1>7, <3>1, <3>2
    <2>2. CASE ~\E i \in H : code(i) > c
      BY <1>5, <1>7, <2>2
    <2> QED
      BY <2>1, <2>2
  <1>9. ASSUME NEW k \in left .. right - 1 PROVE k \in H /\ code(k) = c
    <2>1. k \in H
      BY <1>1, <1>5, <1>7, <1>8
    <2>2. code(k) >= c
      <3>1. CASE k = left
        BY <1>1, <1>5, <3>1
      <3>2. CASE k # left
        BY <1>2, <1>5, <1>7, <2>1, <3>2
      <3> QED
        BY <3>1, <3>2
    <2>3. ~(code(k) > c)
      <3> SUFFICES ASSUME code(k) > c PROVE FALSE
        OBVIOUS
      <3>1. right = behind /\ behind <= k
        BY <1>6, <2>1
      <3> QED
        BY <1>7, <1>8, <2>1, <3>1
    <2> QED
      BY <1>1, <2>1, <2>2, <2>3
  <1>10. ASSUME NEW k \in H, code(k) = c PROVE k \in left .. right - 1
    <2>1. left <= k
      BY <1>5, <1>10
    <2>2. k < right
      <3>1. CASE \E i \in H : code(i) > c
        <4>1. right = behind /\ behind \in H /\ code(behind) > c
          BY <1>6, <3>1
        <4>2. behind # k /\ ~(behind < k)
          BY <1>1, <1>2, <1>10, <4>1
        <4> QED
          BY <1>7, <1>10, <4>1, <4>2
      <3>2. CASE ~\E i \in H : code(i) > c
        BY <1>7, <1>10, <3>2
      <3> QED
        BY <3>1, <3>2
    <2> QED
      BY <1>5, <1>7, <1>8, <1>10, <2>1, <2>2
  <1>11. left \in left .. right - 1
    BY <1>5, <1>7, <1>8
  <1> HIDE DEF right
  <1>12. left .. right - 1 = {k \in H : code(k) = c}
    BY <1>9, <1>10
  <1> QED
    BY <1>1, <1>3, <1>11, <1>12 DEF code

(* One byte further: the child for the byte, if any key goes on with it. *)
LEMMA NextCovered ==
  ASSUME NEW ks, InBytes(ks), NEW node, NEW text, NEW i \in Nat, text[i + 1] \in Nat,
         IsBranch(ks, node), Covers(ks, node, text, i)
  PROVE  /\ text[i + 1] + 1 \in ChildCodes(ks, node) <=> Starting(ks, text, i + 1) # {}
         /\ text[i + 1] + 1 \in ChildCodes(ks, node) =>
              LET child == Child(ks, node, text[i + 1] + 1)
              IN  Covers(ks, child, text, i + 1) /\ ChildCodes(ks, child) # {}
  <1> DEFINE c == text[i + 1] + 1
             R == node.left .. node.right - 1
             child == Child(ks, node, c)
  <1>1. R = Starting(ks, text, i) /\ node.depth = i /\ \A k \in R : Len(ks[k]) >= node.depth
    BY Zenon DEF Covers, Starting
  <1>2. \A k \in R : k \in 1 .. Len(ks) /\ Len(ks[k]) \in Nat /\ \A j \in 1 .. Len(ks[k]) : ks[k][j] \in Nat
    <2>1. \A k \in 1 .. Len(ks) : ks[k] \in Seq(Bytes)
      BY DEF InBytes
    <2>2. \A k \in 1 .. Len(ks) : ks[k] \in Seq(Nat)
      BY <2>1, BytesAre
    <2> HIDE DEF R
    <2> QED
      BY <1>1, <2>2 DEF Starting
  <1>3. ASSUME NEW k \in R
        PROVE  CodeOf(ks, k, i) = c <=> Len(ks[k]) >= i + 1 /\ ks[k][i + 1] = text[i + 1]
    <2>1. Len(ks[k]) \in Nat /\ Len(ks[k]) >= i /\ (Len(ks[k]) >= i + 1 => ks[k][i + 1] \in Nat)
      BY <1>1, <1>2
    <2> QED
      BY <2>1 DEF CodeOf
  <1>4. Starting(ks, text, i + 1) = {k \in R : CodeOf(ks, k, i) = c}
    <2>1. ASSUME NEW k \in Starting(ks, text, i + 1) PROVE k \in R /\ CodeOf(ks, k, i) = c
      <3>1. /\ k \in 1 .. Len(ks) /\ Len(ks[k]) >= i + 1 /\ \A j \in 1 .. i + 1 : ks[k][j] = text[j]
            /\ Len(ks[k]) \in Nat
        BY DEF Starting, InBytes
      <3>2. k \in Starting(ks, text, i)
        BY <3>1 DEF Starting
      <3>3. i + 1 \in 1 .. i + 1
        OBVIOUS
      <3> HIDE DEF R, c
      <3> QED
        BY <1>1, <1>3, <3>1, <3>2, <3>3
    <2>2. ASSUME NEW k \in R, CodeOf(ks, k, i) = c PROVE k \in Starting(ks, text, i + 1)
      <3>1. Len(ks[k]) >= i + 1 /\ ks[k][i + 1] = text[i + 1]
        BY <1>3, <2>2
      <3>2. k \in 1 .. Len(ks) /\ \A j \in 1 .. i : ks[k][j] = text[j]
        BY <1>1, <2>2, Zenon DEF Starting
      <3>3. \A j \in 1 .. i + 1 : j \in 1 .. i \/ j = i + 1
        OBVIOUS
      <3> HIDE DEF R, c
      <3> QED
        BY <3>1, <3>2, <3>3 DEF Starting
    <2> HIDE DEF R, c
    <2> QED
      BY <2>1, <2>2
  <1>5. ChildCodes(ks, node) = {CodeOf(ks, k, i) : k \in R}
    <2>1. Held(ks, node.left, node.right, node.depth) = R
      BY <1>1 DEF Held
    <2> HIDE DEF R
    <2> QED
      BY <1>1, <2>1 DEF ChildCodes
  <1>6. c \in ChildCodes(ks, node) <=> Starting(ks, text, i + 1) # {}
    <2> HIDE DEF R, c
    <2> QED
      BY <1>4, <1>5
  <1>7. ASSUME c \in ChildCodes(ks, node) PROVE Covers(ks, child, text, i + 1) /\ ChildCodes(ks, child) # {}
    <2>1. /\ child.depth = i + 1 /\ child.left .. child.right - 1 = {k \in R : CodeOf(ks, k, i) = c}
          /\ child.left \in child.left .. child.right - 1
      <3> HIDE DEF c
      <3> QED
        BY <1>1, <1>7, ChildHas
    <2> HIDE DEF child, R, c
    <2>2. Covers(ks, child, text, i + 1)
      BY <1>4, <2>1, Zenon DEF Covers
    <2>3. Len(ks[child.left]) >= i + 1
      BY <1>4, <2>1 DEF Starting
    <2>4. child.left \in Held(ks, child.left, child.right, child.depth)
      BY <2>1, <2>3 DEF Held
    <2> QED
      BY <2>2, <2>4 DEF ChildCodes
  <1> QED
    BY <1>6, <1>7

(* Where the text ends: the child for its end, if it is a key. *)
LEMMA EndCovered ==
  ASSUME NEW ks, InBytes(ks), NEW node, NEW text, NEW i \in Nat,
         IsBranch(ks, node), Covers(ks, node, text, i)
  PROVE  /\ 0 \in ChildCodes(ks, node) <=> \E k \in Starting(ks, text, i) : Len(ks[k]) = i
         /\ 0 \in ChildCodes(ks, node) =>
              LET child == Child(ks, node, 0)
              IN  /\ child.left \in Starting(ks, text, i) /\ Len(ks[child.left]) = i
                  /\ ChildCodes(ks, child) = {}
  <1> DEFINE R == node.left .. node.right - 1
             child == Child(ks, node, 0)
  <1>1. R = Starting(ks, text, i) /\ node.depth = i /\ \A k \in R : Len(ks[k]) >= node.depth
    BY DEF Covers, Starting
  <1>2. \A k \in R : k \in 1 .. Len(ks) /\ Len(ks[k]) \in Nat /\ \A j \in 1 .. Len(ks[k]) : ks[k][j] \in Nat
    <2>1. \A k \in 1 .. Len(ks) : ks[k] \in Seq(Bytes)
      BY DEF InBytes
    <2>2. \A k \in 1 .. Len(ks) : ks[k] \in Seq(Nat)
      BY <2>1, BytesAre
    <2> HIDE DEF R
    <2> QED
      BY <1>1, <2>2 DEF Starting
  <1>3. ASSUME NEW k \in R PROVE CodeOf(ks, k, i) = 0 <=> Len(ks[k]) = i
    <2>1. Len(ks[k]) \in Nat /\ Len(ks[k]) >= i /\ (Len(ks[k]) # i => ks[k][i + 1] \in Nat)
      BY <1>1, <1>2
    <2> QED
      BY <2>1 DEF CodeOf
  <1>5. ChildCodes(ks, node) = {CodeOf(ks, k, i) : k \in R}
    <2>1. Held(ks, node.left, node.right, node.depth) = R
      BY <1>1 DEF Held
    <2> HIDE DEF R
    <2> QED
      BY <1>1, <2>1 DEF ChildCodes
  <1>6. 0 \in ChildCodes(ks, node) <=> \E k \in Starting(ks, text, i) : Len(ks[k]) = i
    <2> HIDE DEF R
    <2> QED
      BY <1>1, <1>3, <1>5
  <1>7. ASSUME 0 \in ChildCodes(ks, node)
        PROVE  /\ child.left \in Starting(ks, text, i) /\ Len(ks[child.left]) = i
               /\ ChildCodes(ks, child) = {}
    <2>1. /\ child.depth = i + 1 /\ child.left .. child.right - 1 = {k \in R : CodeOf(ks, k, i) = 0}
          /\ child.left \in child.left .. child.right - 1
      BY <1>1, <1>7, ChildHas
    <2> HIDE DEF child, R
    <2>2. \A k \in child.left .. child.right - 1 : k \in R /\ Len(ks[k]) = i
      BY <1>3, <2>1
    <2>3. Held(ks, child.left, child.right, child.depth) = {}
      BY <2>1, <2>2 DEF Held
    <2> QED
      BY <1>1, <2>1, <2>2, <2>3 DEF ChildCodes
  <1> QED
    BY <1>6, <1>7

(* The bases along the first n bytes of a text. *)
WalkNext(cells, b, byte) == IF b > 0 /\ cells[b + byte + 1].check = b THEN cells[b + byte + 1].base ELSE 0
IsWalk(b, cells, text, n) ==
  /\ DOMAIN b = 0 .. n /\ b[0] = cells[0].base
  /\ \A i \in 1 .. n : b[i] = WalkNext(cells, b[i - 1], text[i])

LEMMA WalksExist ==
  ASSUME NEW cells, NEW text, NEW n \in Nat PROVE \E b : IsWalk(b, cells, text, n)
  <1> DEFINE Ns == {k \in Nat : ~\E b : IsWalk(b, cells, text, k)}
  <1> SUFFICES ASSUME Ns # {} PROVE FALSE
    OBVIOUS
  <1>1. PICK k \in Ns : \A j \in Ns : k <= j
    <2>1. Ns \subseteq Nat
      OBVIOUS
    <2> HIDE DEF Ns
    <2> QED
      BY <2>1, Smallest, Zenon
  <1>2. k # 0
    <2>1. IsWalk([i \in 0 .. 0 |-> cells[0].base], cells, text, 0)
      BY DEF IsWalk
    <2> QED
      BY <1>1, <2>1
  <1>3. k - 1 \in Nat /\ k \in Nat /\ k - 1 \notin Ns
    BY <1>1, <1>2
  <1>4. PICK s : IsWalk(s, cells, text, k - 1)
    BY <1>3
  <1>5. PICK new : new = WalkNext(cells, s[k - 1], text[k])
    OBVIOUS
  <1>6. PICK t : t = [i \in 0 .. k |-> IF i = k THEN new ELSE s[i]]
    BY Zenon
  <1>7. IsWalk(t, cells, text, k)
    <2>1. DOMAIN t = 0 .. k /\ t[0] = cells[0].base
      BY <1>2, <1>3, <1>4, <1>6 DEF IsWalk
    <2>2. ASSUME NEW i \in 1 .. k PROVE t[i] = WalkNext(cells, t[i - 1], text[i])
      <3>1. t[i - 1] = s[i - 1]
        BY <1>3, <1>6
      <3>2. i # k => t[i] = s[i] /\ i \in 1 .. k - 1
        BY <1>3, <1>6
      <3>3. i = k => t[i] = new
        BY <1>3, <1>6
      <3> QED
        BY <1>4, <1>5, <3>1, <3>2, <3>3 DEF IsWalk
    <2> QED
      BY <2>1, <2>2 DEF IsWalk
  <1> QED
    BY <1>1, <1>7

LEMMA BasesWalk ==
  ASSUME NEW cells, NEW text, Len(text) \in Nat
  PROVE  IsWalk(Bases(cells, text), cells, text, Len(text))
  <1> DEFINE Body(t) == [i \in 0 .. Len(text) |->
                           IF i = 0 THEN cells[0].base
                           ELSE LET p == t[i - 1] + text[i] + 1
                                IN  IF t[i - 1] > 0 /\ cells[p].check = t[i - 1] THEN cells[p].base ELSE 0]
             st == CHOOSE t : t = Body(t)
  <1>1. PICK s : IsWalk(s, cells, text, Len(text))
    BY WalksExist, Zenon
  <1>2. PICK u : u = [i \in 0 .. Len(text) |-> s[i]]
    BY Zenon
  <1>0. \A t : /\ DOMAIN Body(t) = 0 .. Len(text) /\ Body(t)[0] = cells[0].base
               /\ \A i \in 1 .. Len(text) : Body(t)[i] = WalkNext(cells, t[i - 1], text[i])
    BY DEF WalkNext
  <1>3. u = Body(u)
    <2>1. ASSUME NEW i \in 1 .. Len(text) PROVE u[i] = WalkNext(cells, u[i - 1], text[i])
      <3>1. i \in 0 .. Len(text) /\ i - 1 \in 0 .. Len(text)
        OBVIOUS
      <3>2. u[i] = s[i] /\ u[i - 1] = s[i - 1]
        BY <1>2, <3>1
      <3> QED
        BY <1>1, <3>2 DEF IsWalk
    <2>2. u[0] = cells[0].base
      BY <1>1, <1>2 DEF IsWalk
    <2>3. \A i \in 0 .. Len(text) : i = 0 \/ i \in 1 .. Len(text)
      OBVIOUS
    <2>4. DOMAIN u = 0 .. Len(text) /\ u = [i \in 0 .. Len(text) |-> u[i]]
      BY <1>2
    <2> DEFINE w == Body(u)
    <2>5. w = [i \in 0 .. Len(text) |-> w[i]]
      OBVIOUS
    <2>6. w[0] = cells[0].base /\ \A i \in 1 .. Len(text) : w[i] = WalkNext(cells, u[i - 1], text[i])
      BY <1>0, Zenon
    <2> HIDE DEF w, Body
    <2>7. \A i \in 0 .. Len(text) : u[i] = w[i]
      BY <2>1, <2>2, <2>3, <2>6, Zenon
    <2>8. u = w
      BY <2>4, <2>5, <2>7
    <2> QED
      BY <2>8 DEF w
  <1>4. st = Body(st)
    <2> HIDE DEF Body
    <2>1. \E t : t = Body(t)
      BY <1>3
    <2> QED
      BY <2>1, Zenon
  <1>5. Bases(cells, text) = st
    BY DEF Bases
  <1> HIDE DEF st, Body
  <1>6. IsWalk(st, cells, text, Len(text))
    BY <1>0, <1>4 DEF IsWalk
  <1> QED
    BY <1>5, <1>6

(* A walk over placed keys. *)
Walks(ks, vs, N, a, n, cells, text, b) ==
  /\ InBytes(ks) /\ ks # <<>> /\ n \in Nat /\ IsPlaced(ks, vs, N, a, n)
  /\ \A k \in 1 .. Len(ks) : vs[k] \in Int
  /\ cells = [p \in 0 .. n - 1 |-> a[p]] /\ text \in Seq(Bytes) /\ IsWalk(b, cells, text, Len(text))
(* After i bytes it is at the node of the keys that begin with them. *)
Reaches(ks, N, text, b, i) ==
  /\ Starting(ks, text, i) # {} => b \in DOMAIN N /\ Covers(ks, N[b], text, i)
  /\ Starting(ks, text, i) = {} => b = 0

LEMMA PlacedCells ==
  ASSUME NEW ks, NEW vs, NEW N, NEW a, NEW n, NEW cells, NEW text, NEW b, Walks(ks, vs, N, a, n, cells, text, b)
  PROVE  /\ 1 \in DOMAIN N /\ N[1] = Root(ks) /\ cells[0].base = 1
         /\ \A x \in DOMAIN N : /\ x \in Nat /\ x > 0 /\ IsBranch(ks, N[x]) /\ x + MaxByte + 1 < n
                                /\ \A c \in Codes : cells[x + c].check = x <=> c \in ChildCodes(ks, N[x])
                                /\ \A c \in ChildCodes(ks, N[x]) :
                                     /\ c \in Codes /\ cells[x + c].base = a[x + c].base
                                     /\ RightAt(ks, vs, N, a, x, c)
  <1> USE DEF Walks
  <1>1. /\ Trie(ks, N, a, n) /\ 1 \in DOMAIN N /\ N[1] = Root(ks)
        /\ \A x \in DOMAIN N : x + MaxByte + 1 < n
        /\ \A x \in DOMAIN N : \A c \in ChildCodes(ks, N[x]) : RightAt(ks, vs, N, a, x, c)
    BY DEF IsPlaced
  <1>2. PICK m \in Nat : DOMAIN a = 0 .. m - 1 /\ n <= m
    BY Zenon DEF IsPlaced, ArrayIs
  <1>3. MaxByte \in Nat /\ Codes = 0 .. MaxByte + 1
    BY ArrayConstants DEF Codes
  <1>4. \A x \in DOMAIN N : x \in Nat /\ x > 0 /\ IsBranch(ks, N[x])
    BY <1>1 DEF Trie, NodesOK
  <1>5. a[0].base = 1 /\ \A x \in DOMAIN N : \A p \in DOMAIN a : a[p].check = x <=> p - x \in ChildCodes(ks, N[x])
    BY <1>1 DEF Trie, ChecksRight, BasesRight
  <1>6. \A p \in 0 .. n - 1 : p \in DOMAIN a /\ cells[p] = a[p]
    BY <1>2
  <1>7. 0 \in 0 .. n - 1
    BY <1>1, <1>3, <1>4
  <1>8. ASSUME NEW x \in DOMAIN N, NEW c \in Codes
        PROVE  (cells[x + c].check = x <=> c \in ChildCodes(ks, N[x])) /\ cells[x + c].base = a[x + c].base
    <2>1. x + c \in 0 .. n - 1 /\ (x + c) - x = c
      BY <1>1, <1>3, <1>4
    <2> DEFINE p == x + c
    <2>2. p \in DOMAIN a /\ cells[p] = a[p] /\ p - x = c
      BY <1>6, <2>1
    <2> HIDE DEF p, Walks
    <2>3. (a[p].check = x <=> c \in ChildCodes(ks, N[x])) /\ cells[p].check = a[p].check /\ cells[p].base = a[p].base
      BY <1>5, <2>2
    <2> QED
      BY <2>3 DEF p
  <1>9. ASSUME NEW x \in DOMAIN N PROVE ChildCodes(ks, N[x]) \subseteq Codes
    BY <1>4, CodesInside DEF IsBranch
  <1>10. cells[0].base = 1
    BY <1>5, <1>6, <1>7
  <1> HIDE DEF Walks
  <1> QED
    BY <1>1, <1>4, <1>8, <1>9, <1>10

LEMMA WalkReaches ==
  ASSUME NEW ks, NEW vs, NEW N, NEW a, NEW n, NEW cells, NEW text, NEW b, Walks(ks, vs, N, a, n, cells, text, b),
         NEW i \in 0 .. Len(text)
  PROVE  Reaches(ks, N, text, b[i], i)
  <1> DEFINE Bad == {k \in Nat : k <= Len(text) /\ ~Reaches(ks, N, text, b[k], k)}
  <1>0. /\ Len(text) \in Nat /\ text \in Seq(Bytes) /\ InBytes(ks) /\ ks # <<>>
        /\ b[0] = cells[0].base /\ \A k \in 1 .. Len(text) : b[k] = WalkNext(cells, b[k - 1], text[k])
    BY DEF Walks, IsWalk
  <1>1. /\ 1 \in DOMAIN N /\ N[1] = Root(ks) /\ cells[0].base = 1
        /\ \A x \in DOMAIN N : /\ x \in Nat /\ x > 0 /\ IsBranch(ks, N[x])
                               /\ \A c \in Codes : cells[x + c].check = x <=> c \in ChildCodes(ks, N[x])
                               /\ \A c \in ChildCodes(ks, N[x]) :
                                    cells[x + c].base = a[x + c].base /\ RightAt(ks, vs, N, a, x, c)
    BY PlacedCells
  <1> SUFFICES ASSUME Bad # {} PROVE FALSE
    BY <1>0
  <1>2. PICK k \in Bad : \A j \in Bad : k <= j
    <2>1. Bad \subseteq Nat
      OBVIOUS
    <2> HIDE DEF Bad
    <2> QED
      BY <2>1, Smallest, Zenon
  <1>3. CASE k = 0
    <2>1. b[0] = 1
      BY <1>0, <1>1
    <2>2. Len(ks) \in Nat /\ Len(ks) > 0 /\ \A j \in 1 .. Len(ks) : Len(ks[j]) \in Nat
      BY <1>0 DEF InBytes
    <2>3. Starting(ks, text, 0) = 1 .. Len(ks)
      BY <2>2 DEF Starting
    <2>4. Starting(ks, text, 0) # {} /\ Covers(ks, N[1], text, 0)
      BY <1>1, <2>2, <2>3 DEF Covers, Root
    <2>5. Reaches(ks, N, text, b[0], 0)
      BY <1>1, <2>1, <2>4 DEF Reaches
    <2> QED
      BY <1>2, <1>3, <2>5
  <1>4. CASE k # 0
    <2> DEFINE j == k - 1
               x == b[j]
               byte == text[k]
               c == byte + 1
    <2>1. j \in Nat /\ k \in Nat /\ k \in 1 .. Len(text) /\ j + 1 = k /\ j < k /\ j <= Len(text)
      BY <1>0, <1>2, <1>4
    <2>2. Reaches(ks, N, text, x, j)
      <3>1. j \notin Bad
        BY <1>2, <2>1
      <3> QED
        BY <2>1, <3>1
    <2>3. byte \in Bytes /\ byte \in Nat /\ c \in Codes
      <3>1. MaxByte \in Nat /\ Bytes = 0 .. MaxByte /\ Codes = 0 .. MaxByte + 1
        BY ArrayConstants DEF Bytes, Codes
      <3>2. byte \in Bytes
        BY <1>0, <2>1
      <3> QED
        BY <3>1, <3>2
    <2>4. b[k] = WalkNext(cells, x, byte)
      BY <1>0, <2>1
    <2>5. byte = text[j + 1]
      BY <2>1
    <2> HIDE DEF x, byte, j, Bad
    <2>6. CASE Starting(ks, text, j) = {}
      <3>1. Starting(ks, text, k) \subseteq Starting(ks, text, j)
        <4>1. \A y \in Starting(ks, text, k) : Len(ks[y]) \in Nat /\ Len(ks[y]) >= k
          BY <1>0 DEF Starting, InBytes
        <4>2. 1 .. j \subseteq 1 .. k
          BY <2>1
        <4> QED
          BY <2>1, <4>1, <4>2 DEF Starting
      <3>2. x = 0
        BY <2>2, <2>6 DEF Reaches
      <3>3. b[k] = 0
        BY <2>4, <3>2 DEF WalkNext
      <3>4. Reaches(ks, N, text, b[k], k)
        BY <2>6, <3>1, <3>3 DEF Reaches
      <3> QED
        BY <1>2, <3>4 DEF Bad
    <2>7. CASE Starting(ks, text, j) # {}
      <3>1. x \in DOMAIN N /\ Covers(ks, N[x], text, j) /\ IsBranch(ks, N[x]) /\ x \in Nat /\ x > 0
        BY <1>1, <2>2, <2>7 DEF Reaches
      <3>2. cells[x + c].check = x <=> c \in ChildCodes(ks, N[x])
        BY <1>1, <2>3, <3>1
      <3>3. /\ c \in ChildCodes(ks, N[x]) <=> Starting(ks, text, k) # {}
            /\ c \in ChildCodes(ks, N[x]) =>
                 LET child == Child(ks, N[x], c)
                 IN  Covers(ks, child, text, k) /\ ChildCodes(ks, child) # {}
        <4>1. /\ byte + 1 \in ChildCodes(ks, N[x]) <=> Starting(ks, text, j + 1) # {}
              /\ byte + 1 \in ChildCodes(ks, N[x]) =>
                   LET child == Child(ks, N[x], byte + 1)
                   IN  Covers(ks, child, text, j + 1) /\ ChildCodes(ks, child) # {}
          BY <1>0, <2>1, <2>3, <2>5, <3>1, NextCovered
        <4> QED
          BY <2>1, <4>1
      <3>4. x + byte + 1 = x + c
        BY <2>3, <3>1
      <3> HIDE DEF c
      <3>5. CASE c \in ChildCodes(ks, N[x])
        <4>1. b[k] = a[x + c].base
          BY <1>1, <2>4, <3>1, <3>2, <3>4, <3>5 DEF WalkNext
        <4>2. RightAt(ks, vs, N, a, x, c)
          BY <1>1, <3>1, <3>5
        <4>3. b[k] \in DOMAIN N /\ N[b[k]] = Child(ks, N[x], c)
          BY <3>3, <3>5, <4>1, <4>2 DEF RightAt
        <4>4. Reaches(ks, N, text, b[k], k)
          BY <3>3, <3>5, <4>3 DEF Reaches
        <4> QED
          BY <1>2, <4>4 DEF Bad
      <3>6. CASE c \notin ChildCodes(ks, N[x])
        <4>1. b[k] = 0
          BY <2>4, <3>2, <3>4, <3>6 DEF WalkNext
        <4>2. Reaches(ks, N, text, b[k], k)
          BY <3>3, <3>6, <4>1 DEF Reaches
        <4> QED
          BY <1>2, <4>2 DEF Bad
      <3> QED
        BY <3>5, <3>6
    <2> QED
      BY <2>6, <2>7
  <1> QED
    BY <1>3, <1>4

(* The keys that begin with i bytes and are as long are these bytes. *)
LEMMA StemIs ==
  ASSUME NEW ks, InBytes(ks), NEW text \in Seq(Bytes), NEW i \in 0 .. Len(text), NEW k \in 1 .. Len(ks)
  PROVE  k \in Starting(ks, text, i) /\ Len(ks[k]) = i <=> ks[k] = SubSeq(text, 1, i)
  <1> DEFINE w == ks[k]
             v == SubSeq(text, 1, i)
  <1>1. w \in Seq(Bytes) /\ Len(w) \in Nat /\ i \in Nat /\ Len(text) \in Nat
    BY DEF InBytes
  <1>2. v \in Seq(Bytes) /\ Len(v) = i /\ \A j \in 1 .. i : v[j] = text[j]
    BY <1>1
  <1>3. ASSUME k \in Starting(ks, text, i), Len(w) = i PROVE w = v
    <2>1. \A j \in 1 .. i : w[j] = v[j]
      BY <1>2, <1>3 DEF Starting
    <2> HIDE DEF w, v
    <2> QED
      BY <1>1, <1>2, <1>3, <2>1
  <1>4. ASSUME w = v PROVE k \in Starting(ks, text, i) /\ Len(w) = i
    <2> HIDE DEF v
    <2> QED
      BY <1>1, <1>2, <1>4 DEF Starting
  <1> QED
    BY <1>3, <1>4

LEMMA EndReached ==
  ASSUME NEW ks, NEW vs, NEW N, NEW a, NEW n, NEW cells, NEW text, NEW b, Walks(ks, vs, N, a, n, cells, text, b),
         NEW i \in 0 .. Len(text)
  PROVE  /\ EndsKey(cells, b[i]) <=> \E k \in 1 .. Len(ks) : ks[k] = SubSeq(text, 1, i)
         /\ EndsKey(cells, b[i]) =>
              \E k \in 1 .. Len(ks) : ks[k] = SubSeq(text, 1, i) /\ vs[k] = - cells[b[i]].base - 1
  <1> DEFINE x == b[i]
  <1>0. text \in Seq(Bytes) /\ Len(text) \in Nat /\ i \in Nat /\ InBytes(ks)
    BY DEF Walks
  <1>1. \A y \in DOMAIN N : /\ y \in Nat /\ y > 0 /\ IsBranch(ks, N[y])
                            /\ \A c \in Codes : cells[y + c].check = y <=> c \in ChildCodes(ks, N[y])
                            /\ \A c \in ChildCodes(ks, N[y]) :
                                 cells[y + c].base = a[y + c].base /\ RightAt(ks, vs, N, a, y, c)
    BY PlacedCells
  <1>2. Reaches(ks, N, text, x, i)
    BY WalkReaches
  <1>3. \A k \in 1 .. Len(ks) : k \in Starting(ks, text, i) /\ Len(ks[k]) = i <=> ks[k] = SubSeq(text, 1, i)
    BY <1>0, StemIs
  <1>4. \A k \in Starting(ks, text, i) : k \in 1 .. Len(ks)
    BY DEF Starting
  <1> HIDE DEF x
  <1>5. CASE Starting(ks, text, i) = {}
    <2>1. x = 0
      BY <1>2, <1>5 DEF Reaches
    <2>2. ~EndsKey(cells, x)
      BY <2>1 DEF EndsKey
    <2> QED
      BY <1>3, <1>5, <2>2 DEF x
  <1>6. CASE Starting(ks, text, i) # {}
    <2>1. x \in DOMAIN N /\ Covers(ks, N[x], text, i) /\ IsBranch(ks, N[x]) /\ x \in Nat /\ x > 0
      BY <1>1, <1>2, <1>6 DEF Reaches
    <2>2. /\ 0 \in ChildCodes(ks, N[x]) <=> \E k \in Starting(ks, text, i) : Len(ks[k]) = i
          /\ 0 \in ChildCodes(ks, N[x]) =>
               LET child == Child(ks, N[x], 0)
               IN  /\ child.left \in Starting(ks, text, i) /\ Len(ks[child.left]) = i
                   /\ ChildCodes(ks, child) = {}
      BY <1>0, <2>1, EndCovered
    <2>3. 0 \in Codes /\ x + 0 = x
      BY <2>1, ArrayConstants DEF Codes
    <2>4. cells[x].check = x <=> 0 \in ChildCodes(ks, N[x])
      BY <1>1, <2>1, <2>3
    <2>5. ASSUME 0 \in ChildCodes(ks, N[x])
          PROVE  /\ EndsKey(cells, x)
                 /\ \E k \in 1 .. Len(ks) : ks[k] = SubSeq(text, 1, i) /\ vs[k] = - cells[x].base - 1
      <3> DEFINE left == Child(ks, N[x], 0).left
      <3>1. RightAt(ks, vs, N, a, x, 0) /\ cells[x].base = a[x].base
        BY <1>1, <2>1, <2>3, <2>5
      <3>2. vs[left] >= 0 /\ a[x].base = - vs[left] - 1
        BY <2>2, <2>3, <2>5, <3>1 DEF RightAt
      <3> HIDE DEF left
      <3>3. left \in 1 .. Len(ks) /\ ks[left] = SubSeq(text, 1, i) /\ vs[left] \in Int
        <4>1. left \in Starting(ks, text, i) /\ Len(ks[left]) = i
          BY <2>2, <2>5 DEF left
        <4> QED
          BY <1>3, <1>4, <4>1 DEF Walks
      <3>4. cells[x].base < 0 /\ vs[left] = - cells[x].base - 1
        <4> DEFINE v == vs[left]
                   z == cells[x].base
        <4>1. v \in Int /\ v >= 0 /\ z = - v - 1
          BY <3>1, <3>2, <3>3
        <4> HIDE DEF v, z
        <4>2. z < 0 /\ v = - z - 1
          BY <4>1
        <4> QED
          BY <4>2 DEF v, z
      <3>5. EndsKey(cells, x)
        BY <2>1, <2>4, <2>5, <3>4 DEF EndsKey
      <3> QED
        BY <3>3, <3>4, <3>5
    <2>6. 0 \in ChildCodes(ks, N[x]) <=> \E k \in 1 .. Len(ks) : ks[k] = SubSeq(text, 1, i)
      BY <1>3, <1>4, <2>2
    <2>7. EndsKey(cells, x) => 0 \in ChildCodes(ks, N[x])
      BY <2>4 DEF EndsKey
    <2> QED
      BY <2>5, <2>6, <2>7, Zenon DEF x
  <1> QED
    BY <1>5, <1>6, Zenon

(* What commonPrefixSearch returns: the keys the text begins with. *)
LEMMA Searched ==
  ASSUME NEW ks, NEW vs, NEW N, NEW a, NEW n, NEW cells, NEW text,
         Walks(ks, vs, N, a, n, cells, text, Bases(cells, text))
  PROVE  /\ \A r \in CommonPrefixSearch(cells, text) : \E i \in 0 .. Len(text), k \in 1 .. Len(ks) :
              ks[k] = SubSeq(text, 1, i) /\ r = [value |-> vs[k], length |-> i]
         /\ \A i \in 0 .. Len(text), k \in 1 .. Len(ks) : ks[k] = SubSeq(text, 1, i) =>
              \E j \in 1 .. Len(ks) :
                ks[j] = ks[k] /\ [value |-> vs[j], length |-> i] \in CommonPrefixSearch(cells, text)
  <1> DEFINE b == Bases(cells, text)
             I == {i \in 0 .. Len(text) : EndsKey(cells, b[i])}
             Out(i) == [value |-> - cells[b[i]].base - 1, length |-> i]
  <1>1. CommonPrefixSearch(cells, text) = {Out(i) : i \in I}
    BY DEF CommonPrefixSearch
  <1>2. \A i \in 0 .. Len(text) :
          /\ EndsKey(cells, b[i]) <=> \E k \in 1 .. Len(ks) : ks[k] = SubSeq(text, 1, i)
          /\ EndsKey(cells, b[i]) =>
               \E k \in 1 .. Len(ks) : ks[k] = SubSeq(text, 1, i) /\ vs[k] = - cells[b[i]].base - 1
    <2> HIDE DEF b
    <2>1. Walks(ks, vs, N, a, n, cells, text, b)
      BY DEF b
    <2> QED
      BY <2>1, EndReached
  <1> HIDE DEF b
  <1>3. ASSUME NEW i \in I
        PROVE  \E k \in 1 .. Len(ks) : ks[k] = SubSeq(text, 1, i) /\ Out(i) = [value |-> vs[k], length |-> i]
    BY <1>2, Zenon
  <1>4. ASSUME NEW i \in 0 .. Len(text), NEW k \in 1 .. Len(ks), ks[k] = SubSeq(text, 1, i)
        PROVE  \E j \in 1 .. Len(ks) :
                 ks[j] = ks[k] /\ [value |-> vs[j], length |-> i] \in CommonPrefixSearch(cells, text)
    <2>1. i \in I
      BY <1>2, <1>4
    <2>2. PICK j \in 1 .. Len(ks) : ks[j] = SubSeq(text, 1, i) /\ Out(i) = [value |-> vs[j], length |-> i]
      BY <1>3, <2>1, Zenon
    <2> HIDE DEF I, Out
    <2> QED
      BY <1>1, <1>4, <2>1, <2>2, Zenon
  <1>5. ASSUME NEW r \in CommonPrefixSearch(cells, text)
        PROVE  \E i \in 0 .. Len(text), k \in 1 .. Len(ks) :
                 ks[k] = SubSeq(text, 1, i) /\ r = [value |-> vs[k], length |-> i]
    <2>1. PICK i \in I : r = Out(i)
      <3> HIDE DEF I, Out
      <3> QED
        BY <1>1
    <2>2. i \in 0 .. Len(text)
      OBVIOUS
    <2>3. PICK k \in 1 .. Len(ks) : ks[k] = SubSeq(text, 1, i) /\ Out(i) = [value |-> vs[k], length |-> i]
      BY <1>3
    <2> HIDE DEF I
    <2>4. r = [value |-> vs[k], length |-> i]
      BY <2>1, <2>3
    <2> QED
      BY <2>2, <2>3, <2>4, Zenon
  <1> QED
    BY <1>4, <1>5

(* What stands at every place of a set in order. *)
LEMMA InPlace ==
  ASSUME NEW S, IsFiniteSet(S), NEW R, Orders(R, S), NEW card, \A x \in S : card[x] = Cardinality(Under(R, S, x)),
         NEW p, \A i \in 1 .. Cardinality(S) : (\E x \in S : card[x] = i - 1) => p[i] \in S /\ card[p[i]] = i - 1
  PROVE  /\ Cardinality(S) \in Nat
         /\ \A i \in 1 .. Cardinality(S) : p[i] \in S /\ card[p[i]] = i - 1
         /\ \A x \in S : /\ card[x] \in Nat /\ card[x] + 1 \in 1 .. Cardinality(S) /\ p[card[x] + 1] = x
  <1> DEFINE n == Cardinality(S)
  <1>1. /\ n \in Nat /\ \A x \in S : card[x] \in 0 .. n - 1
        /\ \A x, y \in S : card[x] = card[y] => x = y
        /\ \A i \in 1 .. n : \E x \in S : card[x] = i - 1
    BY Places
  <1>2. \A i \in 1 .. n : p[i] \in S /\ card[p[i]] = i - 1
    BY <1>1
  <1>3. ASSUME NEW x \in S PROVE card[x] \in Nat /\ card[x] + 1 \in 1 .. n /\ p[card[x] + 1] = x
    <2> DEFINE i == card[x] + 1
    <2>1. card[x] \in Nat /\ i \in 1 .. n /\ i - 1 = card[x]
      BY <1>1
    <2> HIDE DEF i, n
    <2>2. p[i] = x
      BY <1>1, <1>2, <2>1
    <2> QED
      BY <2>1, <2>2 DEF i
  <1> QED
    BY <1>1, <1>2, <1>3

(* The entries by their word, those of one word as they were read. *)
EntryBefore(dic, i, k) == Below(dic[i].word, dic[k].word) \/ (dic[i].word = dic[k].word /\ i < k)
EntryOrder(D, dic) == {p \in D \X D : EntryBefore(dic, p[1], p[2])}
PlaceOf(dic, x) == Cardinality({y \in DOMAIN dic : EntryBefore(dic, y, x)})

LEMMA EntriesOrdered ==
  ASSUME NEW dic, NEW lsize, NEW rsize, AreEntries(dic, lsize, rsize)
  PROVE  /\ DOMAIN dic = 1 .. Len(dic) /\ Len(dic) \in Nat /\ \A i \in DOMAIN dic : dic[i].word \in Seq(Bytes)
         /\ IsFiniteSet(DOMAIN dic)
         /\ Orders(EntryOrder(DOMAIN dic, dic), DOMAIN dic)
         /\ \A x \in DOMAIN dic : Under(EntryOrder(DOMAIN dic, dic), DOMAIN dic, x) = {y \in DOMAIN dic : EntryBefore(dic, y, x)}
  <1> DEFINE D == DOMAIN dic
             R == EntryOrder(D, dic)
  <1>1. D = 1 .. Len(dic) /\ Len(dic) \in Nat /\ \A i \in D : dic[i].word \in Seq(Bytes)
    <2>1. PICK S : dic \in Seq(S) /\ \A e \in S : e.word \in Seq(Bytes)
      BY DEF AreEntries
    <2> QED
      BY <2>1
  <1>2. IsFiniteSet(D)
    <2>1. 1 \in Int /\ Len(dic) \in Int
      BY <1>1
    <2> QED
      BY <1>1, <2>1, FS_Interval
  <1>3. \A x, y \in D : <<x, y>> \in R <=> EntryBefore(dic, x, y)
    <2> HIDE DEF D
    <2> QED
      BY DEF EntryOrder
  <1>4. \A x \in D : ~EntryBefore(dic, x, x)
    BY <1>1, BelowStrict, BytesAre DEF EntryBefore
  <1>5. \A x, y \in D : x # y => EntryBefore(dic, x, y) \/ EntryBefore(dic, y, x)
    <2> SUFFICES ASSUME NEW x \in D, NEW y \in D, x # y PROVE EntryBefore(dic, x, y) \/ EntryBefore(dic, y, x)
      OBVIOUS
    <2>1. x \in Nat /\ y \in Nat /\ dic[x].word \in Seq(Bytes) /\ dic[y].word \in Seq(Bytes)
      BY <1>1
    <2>2. CASE dic[x].word = dic[y].word
      BY <2>1, <2>2 DEF EntryBefore
    <2>3. CASE dic[x].word # dic[y].word
      BY <2>1, <2>3, WordsDiffer, BytesAre DEF EntryBefore
    <2> QED
      BY <2>2, <2>3
  <1>6. ASSUME NEW x \in D, NEW y \in D, NEW z \in D, EntryBefore(dic, x, y), EntryBefore(dic, y, z)
        PROVE  EntryBefore(dic, x, z)
    <2>1. /\ x \in Nat /\ y \in Nat /\ z \in Nat
          /\ dic[x].word \in Seq(Bytes) /\ dic[y].word \in Seq(Bytes) /\ dic[z].word \in Seq(Bytes)
      BY <1>1
    <2>2. Below(dic[x].word, dic[y].word) /\ Below(dic[y].word, dic[z].word)
            => Below(dic[x].word, dic[z].word)
      BY <2>1, BelowStrict, BytesAre
    <2> QED
      BY <1>6, <2>1, <2>2 DEF EntryBefore
  <1> HIDE DEF R, D
  <1>7. Orders(R, D)
    BY <1>3, <1>4, <1>5, <1>6 DEF Orders
  <1>8. \A x \in D : Under(R, D, x) = {y \in D : EntryBefore(dic, y, x)}
    BY <1>3 DEF Under
  <1> QED
    BY <1>1, <1>2, <1>7, <1>8 DEF R, D

LEMMA SortedAt ==
  ASSUME NEW dic, NEW lsize, NEW rsize, AreEntries(dic, lsize, rsize)
  PROVE  /\ DOMAIN SortedDic(dic) = 1 .. Cardinality(DOMAIN dic) /\ Cardinality(DOMAIN dic) \in Nat
         /\ \A x \in DOMAIN dic : /\ PlaceOf(dic, x) \in Nat /\ PlaceOf(dic, x) + 1 \in DOMAIN SortedDic(dic)
                                  /\ SortedDic(dic)[PlaceOf(dic, x) + 1] = dic[x]
         /\ \A i \in DOMAIN SortedDic(dic) : \E x \in DOMAIN dic : i = PlaceOf(dic, x) + 1
  <1> DEFINE D == DOMAIN dic
             R == EntryOrder(D, dic)
             Before(i, k) == Below(dic[i].word, dic[k].word) \/ (dic[i].word = dic[k].word /\ i < k)
             order == [i \in 1 .. Cardinality(D) |-> CHOOSE x \in D : Cardinality({y \in D : Before(y, x)}) = i - 1]
             card == [x \in D |-> PlaceOf(dic, x)]
  <1>1. IsFiniteSet(D) /\ Orders(R, D) /\ \A x \in D : card[x] = Cardinality(Under(R, D, x))
    <2>1. \A x \in D : card[x] = Cardinality({y \in D : EntryBefore(dic, y, x)})
      BY DEF PlaceOf
    <2> HIDE DEF card
    <2> QED
      BY <2>1, EntriesOrdered, Zenon
  <1>2. \A i \in 1 .. Cardinality(D) : (\E x \in D : card[x] = i - 1) => order[i] \in D /\ card[order[i]] = i - 1
    <2>1. \A x \in D : card[x] = Cardinality({y \in D : Before(y, x)})
      BY DEF PlaceOf, EntryBefore
    <2> HIDE DEF Before, D, card
    <2>2. ASSUME NEW i \in 1 .. Cardinality(D), NEW x \in D, card[x] = i - 1
          PROVE  order[i] \in D /\ Cardinality({y \in D : Before(y, order[i])}) = i - 1
      BY <2>1, <2>2, Zenon
    <2> QED
      BY <2>1, <2>2, Zenon
  <1>3. SortedDic(dic) = [i \in 1 .. Cardinality(D) |-> dic[order[i]]]
    BY DEF SortedDic, InOrder
  <1>4. \A x \in D : card[x] = PlaceOf(dic, x)
    OBVIOUS
  <1> HIDE DEF order, card, D, R
  <1>5. /\ Cardinality(D) \in Nat
        /\ \A i \in 1 .. Cardinality(D) : order[i] \in D /\ card[order[i]] = i - 1
        /\ \A x \in D : card[x] \in Nat /\ card[x] + 1 \in 1 .. Cardinality(D) /\ order[card[x] + 1] = x
    BY <1>1, <1>2, InPlace
  <1>6. ASSUME NEW i \in 1 .. Cardinality(D) PROVE \E x \in D : i = PlaceOf(dic, x) + 1
    <2>1. order[i] \in D /\ card[order[i]] = i - 1
      BY <1>5
    <2>2. i = PlaceOf(dic, order[i]) + 1
      BY <1>4, <2>1
    <2> QED
      BY <2>1, <2>2
  <1>7. ASSUME NEW x \in D
        PROVE  /\ PlaceOf(dic, x) \in Nat /\ PlaceOf(dic, x) + 1 \in 1 .. Cardinality(D)
               /\ SortedDic(dic)[PlaceOf(dic, x) + 1] = dic[x]
    BY <1>3, <1>4, <1>5
  <1> QED
    BY <1>3, <1>5, <1>6, <1>7, Zenon DEF D

(* The lines of a word in the order they were read. *)
LinesWith(dic, w) == {i \in DOMAIN dic : dic[i].word = w}
LineAt(dic, w, i) == CHOOSE x \in LinesWith(dic, w) : Cardinality({y \in LinesWith(dic, w) : y < x}) = i - 1

LEMMA LinesInOrder ==
  ASSUME NEW dic, NEW lsize, NEW rsize, AreEntries(dic, lsize, rsize), NEW w, LinesWith(dic, w) # {}
  PROVE  LET L == LinesWith(dic, w)
             Nth(x) == Cardinality({y \in L : y < x})
         IN  /\ IsFiniteSet(L) /\ Cardinality(L) \in Nat /\ Cardinality(L) > 0 /\ L \subseteq Nat
             /\ \A i \in 1 .. Cardinality(L) : LineAt(dic, w, i) \in L /\ Nth(LineAt(dic, w, i)) = i - 1
             /\ \A x \in L : Nth(x) \in Nat /\ Nth(x) + 1 \in 1 .. Cardinality(L)
  <1> DEFINE L == LinesWith(dic, w)
             R == {p \in L \X L : p[1] < p[2]}
             card == [x \in L |-> Cardinality({y \in L : y < x})]
             p == [i \in 1 .. Cardinality(L) |-> LineAt(dic, w, i)]
  <1>1. L \subseteq DOMAIN dic /\ DOMAIN dic \subseteq Nat /\ IsFiniteSet(DOMAIN dic)
    BY EntriesOrdered DEF LinesWith
  <1>2. IsFiniteSet(L) /\ L \subseteq Nat
    BY <1>1, FS_Subset
  <1>3. \A i \in 1 .. Cardinality(L) : (\E x \in L : card[x] = i - 1) => p[i] \in L /\ card[p[i]] = i - 1
    <2>1. ASSUME NEW i \in 1 .. Cardinality(L), NEW x \in L, card[x] = i - 1
          PROVE  p[i] \in L /\ Cardinality({y \in L : y < p[i]}) = i - 1
      <3>1. Cardinality({y \in L : y < x}) = i - 1
        BY <2>1
      <3> HIDE DEF L
      <3> QED
        BY <3>1, Zenon DEF LineAt, L
    <2> HIDE DEF L, p
    <2> QED
      BY <2>1
  <1> HIDE DEF L, p
  <1>10. \A x, y \in L : <<x, y>> \in R <=> x < y
    OBVIOUS
  <1>4. Orders(R, L)
    <2> HIDE DEF R
    <2>1. \A x \in L : x \in Nat
      BY <1>2
    <2>2. \A x, y, z \in L : x < y /\ y < z => x < z
      BY <2>1
    <2>3. \A x, y \in L : ~(x < x) /\ (x # y => x < y \/ y < x)
      BY <2>1
    <2> QED
      BY <1>10, <2>2, <2>3, Zenon DEF Orders
  <1>5. \A x \in L : card[x] = Cardinality(Under(R, L, x))
    <2>1. \A x \in L : Under(R, L, x) = {y \in L : y < x}
      <3> HIDE DEF R
      <3> QED
        BY <1>10 DEF Under
    <2> QED
      BY <2>1, Zenon
  <1>6. \A x \in L : card[x] = Cardinality({y \in L : y < x})
    OBVIOUS
  <1> HIDE DEF card, R
  <1>7. /\ Cardinality(L) \in Nat
        /\ \A i \in 1 .. Cardinality(L) : p[i] \in L /\ card[p[i]] = i - 1
        /\ \A x \in L : card[x] \in Nat /\ card[x] + 1 \in 1 .. Cardinality(L)
    <2>1. IsFiniteSet(L)
      BY <1>2
    <2>2. /\ Cardinality(L) \in Nat
          /\ \A i \in 1 .. Cardinality(L) : p[i] \in L /\ card[p[i]] = i - 1
          /\ \A x \in L : card[x] \in Nat /\ card[x] + 1 \in 1 .. Cardinality(L) /\ p[card[x] + 1] = x
      BY <1>3, <1>4, <1>5, <2>1, InPlace
    <2> QED
      BY <2>2
  <1>8. Cardinality(L) > 0
    <2>1. PICK x : x \in L
      BY DEF L
    <2> QED
      BY <1>7, <2>1
  <1>9. \A i \in 1 .. Cardinality(L) : LineAt(dic, w, i) \in L /\ card[LineAt(dic, w, i)] = i - 1
    BY <1>7 DEF p
  <1> QED
    BY <1>2, <1>6, <1>7, <1>8, <1>9, Zenon DEF L

(* The entries of a word stand behind each other, in the order of their     *)
(* lines.                                                                  *)
LEMMA RunOfWord ==
  ASSUME NEW dic, NEW lsize, NEW rsize, AreEntries(dic, lsize, rsize), NEW w, LinesWith(dic, w) # {}
  PROVE  \E from \in Nat :
           /\ {j \in DOMAIN SortedDic(dic) : SortedDic(dic)[j].word = w}
                = from + 1 .. from + Cardinality(LinesWith(dic, w))
           /\ \A i \in 1 .. Cardinality(LinesWith(dic, w)) :
                from + i \in DOMAIN SortedDic(dic) /\ SortedDic(dic)[from + i] = dic[LineAt(dic, w, i)]
  <1> DEFINE D == DOMAIN dic
             L == LinesWith(dic, w)
             Nth(x) == Cardinality({y \in L : y < x})
             Lower == {y \in D : Below(dic[y].word, w)}
             from == Cardinality(Lower)
             sorted == SortedDic(dic)
             run == {j \in DOMAIN sorted : sorted[j].word = w}
  <1>1. /\ IsFiniteSet(D) /\ D \subseteq Nat /\ \A i \in D : dic[i].word \in Seq(Bytes)
    BY EntriesOrdered
  <1>2. /\ IsFiniteSet(L) /\ Cardinality(L) \in Nat
        /\ \A i \in 1 .. Cardinality(L) : LineAt(dic, w, i) \in L /\ Nth(LineAt(dic, w, i)) = i - 1
        /\ \A x \in L : Nth(x) \in Nat /\ Nth(x) + 1 \in 1 .. Cardinality(L)
    BY LinesInOrder
  <1>3. \A x \in D : x \in L <=> dic[x].word = w
    BY DEF LinesWith
  <1>4. L \subseteq D /\ w \in Seq(Bytes) /\ ~Below(w, w)
    <2>1. L \subseteq D /\ w \in Seq(Bytes)
      BY <1>1 DEF LinesWith
    <2> QED
      BY <2>1, BelowStrict, BytesAre
  <1>5. IsFiniteSet(Lower) /\ from \in Nat
    <2>1. Lower \subseteq D
      OBVIOUS
    <2> HIDE DEF Lower, D
    <2> QED
      BY <1>1, <2>1, FS_Subset, FS_CardinalityType, Zenon
  <1>6. ASSUME NEW x \in L PROVE PlaceOf(dic, x) = from + Nth(x)
    <2> DEFINE Same == {y \in L : y < x}
    <2>1. {y \in D : EntryBefore(dic, y, x)} = Lower \cup Same
      <3>1. ASSUME NEW y \in D PROVE EntryBefore(dic, y, x) <=> y \in Lower \/ y \in Same
        <4>1. dic[x].word = w /\ x \in D
          BY <1>3, <1>4
        <4> HIDE DEF L, D
        <4> QED
          BY <1>3, <4>1 DEF EntryBefore
      <3>2. Lower \subseteq D /\ Same \subseteq D
        BY <1>4
      <3> HIDE DEF Lower, Same, D
      <3> QED
        BY <3>1, <3>2
    <2>2. Lower \cap Same = {}
      BY <1>3, <1>4
    <2>3. IsFiniteSet(Same) /\ Same \subseteq L
      <3>1. Same \subseteq L
        OBVIOUS
      <3> HIDE DEF Same, L
      <3> QED
        BY <1>2, <3>1, FS_Subset
    <2>4. Cardinality(Lower \cup Same) = Cardinality(Lower) + Cardinality(Same) - Cardinality(Lower \cap Same)
      <3> HIDE DEF Lower, Same
      <3> QED
        BY <1>5, <2>3, FS_Union
    <2>5. PlaceOf(dic, x) = Cardinality(Lower \cup Same)
      <3> HIDE DEF Lower, Same
      <3> QED
        BY <2>1 DEF PlaceOf
    <2>6. Nth(x) = Cardinality(Same) /\ Nth(x) \in Nat
      BY <1>2
    <2>7. Cardinality(Lower \cap Same) = 0
      <3> HIDE DEF Lower, Same
      <3> QED
        BY <2>2, FS_EmptySet
    <2> HIDE DEF Lower, Same, Nth
    <2> QED
      BY <1>5, <2>4, <2>5, <2>6, <2>7 DEF from
  <1>7. /\ \A x \in D : /\ PlaceOf(dic, x) \in Nat /\ PlaceOf(dic, x) + 1 \in DOMAIN sorted
                        /\ sorted[PlaceOf(dic, x) + 1] = dic[x]
        /\ \A i \in DOMAIN sorted : \E x \in D : i = PlaceOf(dic, x) + 1
    BY SortedAt
  <1> HIDE DEF from, Lower, Nth, sorted, L, D
  <1>8. ASSUME NEW i \in 1 .. Cardinality(L)
        PROVE  /\ from + i \in DOMAIN sorted /\ sorted[from + i] = dic[LineAt(dic, w, i)]
               /\ sorted[from + i].word = w
    <2> DEFINE x == LineAt(dic, w, i)
    <2>1. x \in L /\ x \in D /\ Nth(x) = i - 1 /\ dic[x].word = w
      BY <1>2, <1>3, <1>4
    <2> HIDE DEF x
    <2>2. PlaceOf(dic, x) + 1 = from + i
      BY <1>2, <1>5, <1>6, <2>1
    <2>3. from + i \in DOMAIN sorted /\ sorted[from + i] = dic[x]
      BY <1>7, <2>1, <2>2
    <2> QED
      BY <2>1, <2>3 DEF x
  <1>9. ASSUME NEW j \in run PROVE j \in from + 1 .. from + Cardinality(L)
    <2>1. j \in DOMAIN sorted /\ sorted[j].word = w
      OBVIOUS
    <2>2. PICK x \in D : j = PlaceOf(dic, x) + 1
      BY <1>7, <2>1
    <2>3. x \in L
      BY <1>3, <1>7, <2>1, <2>2
    <2>4. j = from + (Nth(x) + 1) /\ Nth(x) + 1 \in 1 .. Cardinality(L) /\ Nth(x) \in Nat
      <3>1. Nth(x) \in Nat /\ Nth(x) + 1 \in 1 .. Cardinality(L)
        BY <1>2, <2>3
      <3> QED
        BY <1>5, <1>6, <2>2, <2>3, <3>1
    <2> HIDE DEF run
    <2> QED
      BY <1>2, <1>5, <2>4
  <1>10. ASSUME NEW j \in from + 1 .. from + Cardinality(L) PROVE j \in run
    <2> DEFINE i == j - from
    <2>1. i \in 1 .. Cardinality(L) /\ from + i = j
      BY <1>2, <1>5
    <2> HIDE DEF i
    <2> QED
      BY <1>8, <2>1
  <1>11. run = from + 1 .. from + Cardinality(L)
    <2> HIDE DEF run
    <2> QED
      BY <1>9, <1>10, Zenon
  <1> QED
    BY <1>5, <1>8, <1>11 DEF L, sorted

(* A value is a count and a place, if the count fits its part. *)
LEMMA Unpacked ==
  ASSUME NEW n \in Nat, NEW b \in Nat, n < PackWidth
  PROVE  (n + b * PackWidth) % PackWidth = n /\ (n + b * PackWidth) \div PackWidth = b
  <1> DEFINE x == n + b * PackWidth
             q == x \div PackWidth
             r == x % PackWidth
  <1>1. PackWidth \in Nat /\ PackWidth > 0
    BY PackAssumption
  <1>2. x \in Nat /\ b * PackWidth \in Nat
    BY <1>1
  <1>3. q \in Int /\ r \in 0 .. PackWidth - 1 /\ x = PackWidth * q + r
    <2> HIDE DEF x
    <2> QED
      BY <1>1, <1>2
  <1>4. x = n + PackWidth * b
    BY <1>1
  <1> HIDE DEF q, r, x
  <1>5. ~(q < b)
    <2> SUFFICES ASSUME q < b PROVE FALSE
      OBVIOUS
    <2>1. b - (q + 1) \in Nat
      BY <1>3
    <2>2. PackWidth * (b - (q + 1)) \in Nat
      BY <1>1, <2>1
    <2>3. PackWidth * (b - (q + 1)) = PackWidth * b - PackWidth * q - PackWidth
      BY <1>1, <1>3
    <2>4. PackWidth * b \in Int /\ PackWidth * q \in Int
      BY <1>1, <1>3
    <2> QED
      BY <1>1, <1>3, <1>4, <2>2, <2>3, <2>4
  <1>6. ~(b < q)
    <2> SUFFICES ASSUME b < q PROVE FALSE
      OBVIOUS
    <2>1. q - (b + 1) \in Nat
      BY <1>3
    <2>2. PackWidth * (q - (b + 1)) \in Nat
      BY <1>1, <2>1
    <2>3. PackWidth * (q - (b + 1)) = PackWidth * q - PackWidth * b - PackWidth
      BY <1>1, <1>3
    <2>4. PackWidth * b \in Int /\ PackWidth * q \in Int
      BY <1>1, <1>3
    <2> QED
      BY <1>1, <1>3, <1>4, <2>2, <2>3, <2>4
  <1>7. q = b
    BY <1>3, <1>5, <1>6
  <1>8. r = n
    <2>1. PackWidth * b \in Int
      BY <1>1
    <2> QED
      BY <1>3, <1>4, <1>7, <2>1
  <1> QED
    BY <1>7, <1>8 DEF q, r, x

LEMMA ValueIs ==
  ASSUME NEW sorted, NEW w, NEW from \in Nat, NEW n \in Nat, n > 0,
         {j \in DOMAIN sorted : sorted[j].word = w} = from + 1 .. from + n
  PROVE  ValueOf(sorted, w) = n + from * PackWidth
  <1> DEFINE run == {j \in DOMAIN sorted : sorted[j].word = w}
             least == CHOOSE i \in run : \A k \in run : i <= k
  <1>1. ValueOf(sorted, w) = Cardinality(run) + (least - 1) * PackWidth
    BY DEF ValueOf
  <1>2. run = from + 1 .. from + n
    OBVIOUS
  <1> HIDE DEF run
  <1>3. Cardinality(run) = n
    <2>1. from + 1 \in Int /\ from + n \in Int
      OBVIOUS
    <2>2. Cardinality(from + 1 .. from + n)
            = IF from + 1 > from + n THEN 0 ELSE (from + n) - (from + 1) + 1
      BY <2>1, FS_Interval
    <2> QED
      BY <1>2, <2>2
  <1>4. least = from + 1
    <2>1. from + 1 \in run /\ \A k \in run : from + 1 <= k
      BY <1>2
    <2>2. \A k \in run : k \in Int
      BY <1>2
    <2>3. least \in run /\ \A k \in run : least <= k
      <3>1. \E i \in run : \A k \in run : i <= k
        BY <2>1
      <3> QED
        BY <3>1
    <2> HIDE DEF least
    <2> QED
      BY <2>1, <2>2, <2>3
  <1> HIDE DEF least
  <1>5. least - 1 = from
    BY <1>4
  <1> QED
    BY <1>1, <1>3, <1>5

LEMMA TokensRead ==
  ASSUME AreEntries(job.dic, job.lsize, job.rsize), AreNoted(job.dic, job.features, job.wakati),
         NEW w, LinesWith(job.dic, w) # {}, ~(Len(TokensOfWord(job.dic, w)) >= PackWidth)
  PROVE  TokensAt(Binary, ValueOf(SortedDic(job.dic), w)) = TokensOfWord(job.dic, w)
  <1> DEFINE dic == job.dic
             L == LinesWith(dic, w)
             n == Cardinality(L)
             sorted == SortedDic(dic)
             value == ValueOf(sorted, w)
             Of(e) == [lc |-> e.token.lc, rc |-> e.token.rc, posid |-> e.token.posid, wcost |-> e.token.wcost,
                       feature |-> IF job.wakati THEN <<>> ELSE e.feature]
             features == IF job.wakati THEN << <<>> >> ELSE job.features
             Read(t) == [lc |-> t.lc, rc |-> t.rc, posid |-> t.posid, wcost |-> t.wcost, feature |-> features[t.at + 1]]
  <1>1. /\ n \in Nat /\ n > 0 /\ \A i \in 1 .. n : LineAt(dic, w, i) \in DOMAIN dic
    <2>1. n \in Nat /\ n > 0 /\ \A i \in 1 .. n : LineAt(dic, w, i) \in L
      BY LinesInOrder, Zenon
    <2> QED
      BY <2>1 DEF LinesWith
  <1>2. PICK from \in Nat : /\ {j \in DOMAIN sorted : sorted[j].word = w} = from + 1 .. from + n
                            /\ \A i \in 1 .. n : from + i \in DOMAIN sorted /\ sorted[from + i] = dic[LineAt(dic, w, i)]
    BY RunOfWord, Zenon
  <1>3. TokensOfWord(dic, w) = [i \in 1 .. n |-> Of(dic[LineAt(dic, w, i)])]
    <2> DEFINE Earlier(i, k) == i < k
               lines == InOrder({i \in DOMAIN dic : dic[i].word = w}, Earlier)
    <2>1. lines = [i \in 1 .. n |-> LineAt(dic, w, i)]
      BY DEF InOrder, LineAt, LinesWith
    <2>2. TokensOfWord(dic, w) = [i \in DOMAIN lines |-> Of(dic[lines[i]])]
      BY Zenon DEF TokensOfWord
    <2> HIDE DEF lines, Of
    <2> QED
      BY <2>1, <2>2
  <1>4. value = n + from * PackWidth
    <2> HIDE DEF sorted, n
    <2> QED
      BY <1>1, <1>2, ValueIs
  <1>5. n < PackWidth
    <2>1. Len(TokensOfWord(dic, w)) = n
      <3> HIDE DEF Of, n
      <3> QED
        BY <1>1, <1>3
    <2> HIDE DEF n, dic
    <2> QED
      BY <1>1, <2>1, PackAssumption DEF dic
  <1>6. value % PackWidth = n /\ value \div PackWidth = from
    <2> HIDE DEF value, n
    <2> QED
      BY <1>1, <1>4, <1>5, Unpacked
  <1>7. \A i \in 1 .. n : Binary.tokens[from + i] = dic[LineAt(dic, w, i)].token
    <2>1. Binary.tokens = [i \in DOMAIN sorted |-> sorted[i].token]
      BY DEF Binary
    <2> HIDE DEF sorted, dic, n
    <2> QED
      BY <1>2, <2>1
  <1>8. Binary.features = features
    BY DEF Binary
  <1>9. TokensAt(Binary, value) = [i \in 1 .. n |-> Read(Binary.tokens[from + i])]
    <2>1. TokensAt(Binary, value) =
            [i \in 1 .. value % PackWidth |->
               LET t == Binary.tokens[(value \div PackWidth) + i]
               IN  [lc |-> t.lc, rc |-> t.rc, posid |-> t.posid, wcost |-> t.wcost,
                    feature |-> Binary.features[t.at + 1]]]
      BY DEF TokensAt
    <2> HIDE DEF features, value, n
    <2> QED
      BY <1>6, <1>8, <2>1
  <1>10. ASSUME NEW i \in 1 .. n PROVE Read(Binary.tokens[from + i]) = Of(dic[LineAt(dic, w, i)])
    <2> DEFINE x == LineAt(dic, w, i)
               e == dic[x]
    <2>1. Binary.tokens[from + i] = e.token
      BY <1>7
    <2>2. features[e.token.at + 1] = IF job.wakati THEN <<>> ELSE e.feature
      <3>1. IF job.wakati THEN e.token.at = 0
            ELSE e.token.at + 1 \in DOMAIN job.features /\ job.features[e.token.at + 1] = e.feature
        BY <1>1 DEF AreNoted
      <3> HIDE DEF e
      <3> QED
        BY <3>1
    <2> HIDE DEF e, features
    <2>3. Read(e.token) = Of(e)
      BY <2>2
    <2> QED
      BY <2>1, <2>3 DEF e
  <1> HIDE DEF Read, Of, n, value
  <1>11. TokensAt(Binary, value) = TokensOfWord(dic, w)
    BY <1>3, <1>9, <1>10
  <1> QED
    BY <1>11 DEF value

LEMMA KeysKept ==
  ASSUME TypeInv, KeysAt, [Next]_vars PROVE KeysAt'
  <1>0. WordsInv /\ JobAt /\ BuiltAt
    BY DEF TypeInv, WordsInv
  <1>1. ASSUME UNCHANGED <<job, arrayVars>> PROVE KeysAt'
    <2>1. UNCHANGED <<keys, values, phase, job>>
      BY <1>1 DEF arrayVars
    <2> QED
      BY <2>1 DEF KeysAt
  <1>2. ASSUME phase' \in {"idle", "failed"} PROVE KeysAt'
    BY <1>2 DEF KeysAt
  <1>3. CASE Rest \/ Edit \/ Finish \/ Fill \/ WriteFails \/ Close \/ UNCHANGED vars
    <2>1. UNCHANGED <<job, arrayVars>>
      BY <1>3 DEF Rest, Edit, Finish, Fill, WriteFails, Close, vars, lexiconVars
    <2> QED
      BY <1>1, <2>1
  <1>4. CASE Run("system") \/ Run("user")
    <2>1. outcome # "running" /\ UNCHANGED arrayVars
      BY <1>4, Zenon DEF Run
    <2>2. job = NoJob
      BY <1>0, <2>1 DEF JobAt
    <2>3. phase' = "idle"
      BY <1>0, <2>1, <2>2 DEF BuiltAt, arrayVars
    <2> QED
      BY <1>2, <2>3
  <1>5. CASE CompileCharBin \/ CompileMatrixBin
    <2>1. Going /\ Head(plan) \in {"char", "matrix"} /\ UNCHANGED arrayVars
      BY <1>5, Zenon DEF CompileCharBin, CompileMatrixBin
    <2>2. job = NoJob
      BY <1>0, <2>1 DEF JobAt, IsDic
    <2>3. phase' = "idle"
      BY <1>0, <2>1, <2>2 DEF BuiltAt, arrayVars
    <2> QED
      BY <1>2, <2>3
  <1>6. CASE BeginDictionary
    <2>1. job = NoJob /\ UNCHANGED arrayVars
      BY <1>6, Zenon DEF BeginDictionary
    <2>2. phase' = "idle"
      BY <1>0, <2>1 DEF BuiltAt, arrayVars
    <2> QED
      BY <1>2, <2>2
  <1>7. CASE ReadLines \/ LineFails \/ NoWord
    <2>1. job # NoJob /\ (job.files # <<>> \/ job.failed # "" \/ job.dic = <<>>) /\ UNCHANGED arrayVars
      BY <1>7, Zenon DEF ReadLines, ReadLine, LineFails, NoWord
    <2>2. phase' = "idle"
      BY <1>0, <2>1, Zenon DEF BuiltAt, arrayVars
    <2> QED
      BY <1>2, <2>2
  <1>8. CASE BuildArray
    <2>1. /\ job # NoJob /\ Build(WordsOf(job.dic), ValuesOf(job.dic))
          /\ job' = [job EXCEPT !.built = TRUE]
      BY <1>8, Zenon DEF BuildArray, EndOfLines
    <2>2. IsJob(job)
      BY <1>0, <2>1 DEF JobAt
    <2>3. job'.dic = job.dic
      <3>1. {"dic", "built"} \subseteq DOMAIN job
        BY <2>2 DEF IsJob, WorkFields
      <3> QED
        BY <2>1, <3>1
    <2>4. keys' = WordsOf(job.dic) /\ values' = ValuesOf(job.dic)
      BY <2>1 DEF Build
    <2> QED
      BY <2>3, <2>4 DEF KeysAt
  <1>9. CASE InArray
    <2>1. ArrayStep /\ UNCHANGED job
      BY <1>9 DEF InArray, lexiconVars
    <2>2. phase = "insert" /\ UNCHANGED <<keys, values>>
      BY <2>1, Zenon DEF ArrayStep, Probe, Leaf, Enter, Return
    <2> QED
      BY <2>1, <2>2 DEF KeysAt
  <1>10. CASE GrowFails \/ WriteDictionary \/ Crash
    <2>1. phase' = "idle"
      BY <1>10, Zenon DEF GrowFails, WriteDictionary, Crash, ArrayClear
    <2> QED
      BY <1>2, <2>1
  <1> QED
    BY <1>3, <1>4, <1>5, <1>6, <1>7, <1>8, <1>9, <1>10 DEF Next

(* No walk leaves the array. *)
LEMMA InsideAlways ==
  ASSUME NEW ks, NEW vs, NEW N, IsPlaced(ks, vs, N, array, size), size \in Nat
  PROVE  WalksInside
  <1>1. /\ 1 \in DOMAIN N /\ \A b \in DOMAIN N : b + MaxByte + 1 < size
        /\ array[0].base = 1 /\ \A p \in DOMAIN array : array[p].base > 0 => p = 0 \/ array[p].base \in DOMAIN N
    BY DEF IsPlaced, Trie, BasesRight
  <1>2. PICK m \in Nat : DOMAIN array = 0 .. m - 1 /\ size <= m
    BY DEF IsPlaced, ArrayIs
  <1>3. ASSUME NEW p \in 0 .. size - 1, array[p].base > 0 PROVE array[p].base \in DOMAIN N
    <2>1. p \in DOMAIN array
      BY <1>2
    <2> QED
      BY <1>1, <1>3, <2>1
  <1> QED
    BY <1>1, <1>3 DEF WalksInside

(* A word stands at its length in the text, or not at all. *)
LEMMA PrefixIs ==
  ASSUME NEW v \in Seq(Bytes), NEW text \in Seq(Bytes)
  PROVE  IsPrefix(v, text) <=> \E i \in 0 .. Len(text) : v = SubSeq(text, 1, i)
  <1>1. Len(v) \in Nat /\ Len(text) \in Nat
    OBVIOUS
  <1>2. SubSeq(v, 1, Len(v)) = v
    OBVIOUS
  <1>3. ASSUME NEW i \in 0 .. Len(text), v = SubSeq(text, 1, i) PROVE Len(v) = i
    BY <1>1, <1>3
  <1>4. IsPrefix(v, text) <=> Len(v) <= Len(text) /\ v = SubSeq(text, 1, Len(v))
    BY <1>2 DEF IsPrefix
  <1>5. ASSUME IsPrefix(v, text) PROVE \E i \in 0 .. Len(text) : v = SubSeq(text, 1, i)
    <2> DEFINE i == Len(v)
    <2>1. i \in 0 .. Len(text) /\ v = SubSeq(text, 1, i)
      BY <1>1, <1>4, <1>5
    <2> HIDE DEF i
    <2> QED
      BY <2>1
  <1>6. ASSUME NEW i \in 0 .. Len(text), v = SubSeq(text, 1, i) PROVE IsPrefix(v, text)
    BY <1>3, <1>4, <1>6
  <1> QED
    BY <1>5, <1>6

(* Every key is a word of the lines, its value says where its tokens are. *)
LEMMA KeysFind ==
  ASSUME AreEntries(job.dic, job.lsize, job.rsize), AreNoted(job.dic, job.features, job.wakati),
         ~Homographs(job.dic)
  PROVE  LET ks == WordsOf(job.dic)
             vs == ValuesOf(job.dic)
             words == {job.dic[i].word : i \in DOMAIN job.dic}
         IN  /\ \A k \in 1 .. Len(ks) : /\ ks[k] \in words /\ ks[k] \in Seq(Bytes) /\ vs[k] \in Int
                                      /\ TokensAt(Binary, vs[k]) = TokensOfWord(job.dic, ks[k])
             /\ \A w \in words : \E k \in 1 .. Len(ks) : ks[k] = w
  <1> DEFINE dic == job.dic
             ks == WordsOf(dic)
             vs == ValuesOf(dic)
             words == {dic[i].word : i \in DOMAIN dic}
  <1>1. /\ ks \in Seq(Seq(Bytes))
        /\ \A i \in 1 .. Len(ks) : \E k \in DOMAIN dic : ks[i] = dic[k].word
        /\ \A k \in DOMAIN dic : \E i \in 1 .. Len(ks) : ks[i] = dic[k].word
    BY WordsAre, Zenon
  <1>2. \A i \in 1 .. Len(ks) : vs[i] \in Int
    BY ValuesAre
  <1>3. vs = [i \in DOMAIN ks |-> ValueOf(SortedDic(dic), ks[i])]
    BY DEF ValuesOf
  <1> HIDE DEF ks, vs
  <1>4. ASSUME NEW k \in 1 .. Len(ks)
        PROVE  /\ ks[k] \in words /\ ks[k] \in Seq(Bytes) /\ vs[k] \in Int
               /\ TokensAt(Binary, vs[k]) = TokensOfWord(dic, ks[k])
    <2>1. ks[k] \in words
      BY <1>1, Zenon
    <2>2. ks[k] \in Seq(Bytes)
      <3>1. \A i \in DOMAIN dic : dic[i].word \in Seq(Bytes)
        BY EntriesOrdered
      <3> QED
        BY <2>1, <3>1
    <2>3. vs[k] = ValueOf(SortedDic(dic), ks[k])
      BY <1>1, <1>3
    <2> DEFINE w == ks[k]
    <2>4. LinesWith(dic, w) # {}
      BY <2>1 DEF LinesWith
    <2>5. ~(Len(TokensOfWord(dic, w)) >= PackWidth)
      BY <2>1 DEF Homographs
    <2> HIDE DEF w
    <2>6. TokensAt(Binary, ValueOf(SortedDic(dic), w)) = TokensOfWord(dic, w)
      BY <2>4, <2>5, TokensRead
    <2>7. vs[k] \in Int
      BY <1>2
    <2> HIDE DEF words
    <2>8. TokensAt(Binary, vs[k]) = TokensOfWord(dic, ks[k])
      BY <2>3, <2>6 DEF w
    <2> QED
      BY <2>1, <2>2, <2>7, <2>8
  <1>5. ASSUME NEW w \in words PROVE \E k \in 1 .. Len(ks) : ks[k] = w
    <2>1. PICK i \in DOMAIN dic : w = dic[i].word
      OBVIOUS
    <2> HIDE DEF words
    <2> QED
      BY <1>1, <2>1
  <1> QED
    BY <1>4, <1>5 DEF ks, vs

(* What is found when the words are placed. *)
LEMMA AllFound ==
  ASSUME AreEntries(job.dic, job.lsize, job.rsize), AreNoted(job.dic, job.features, job.wakati),
         ~Homographs(job.dic), job.dic # <<>>, size \in Nat, NEW N,
         IsPlaced(WordsOf(job.dic), ValuesOf(job.dic), N, array, size), NEW text \in Seq(Bytes)
  PROVE  Found(Binary, text) = {[word |-> w, tokens |-> TokensOfWord(job.dic, w)] :
                                  w \in {v \in {job.dic[i].word : i \in DOMAIN job.dic} : IsPrefix(v, text)}}
  <1> DEFINE ks == WordsOf(job.dic)
             vs == ValuesOf(job.dic)
             words == {job.dic[i].word : i \in DOMAIN job.dic}
             begun == {v \in words : IsPrefix(v, text)}
             Out(w) == [word |-> w, tokens |-> TokensOfWord(job.dic, w)]
             cells == [p \in 0 .. size - 1 |-> array[p]]
             In(r) == [word |-> SubSeq(text, 1, r.length), tokens |-> TokensAt(Binary, r.value)]
  <1>1. /\ \A k \in 1 .. Len(ks) : /\ ks[k] \in words /\ ks[k] \in Seq(Bytes) /\ vs[k] \in Int
                                 /\ TokensAt(Binary, vs[k]) = TokensOfWord(job.dic, ks[k])
        /\ \A w \in words : \E k \in 1 .. Len(ks) : ks[k] = w
    BY KeysFind
  <1>2. InBytes(ks) /\ ks # <<>>
    <2>1. ks \in Seq(Seq(Bytes))
      BY WordsAre
    <2>2. words # {}
      <3>1. PICK S : job.dic \in Seq(S)
        BY DEF AreEntries
      <3>2. 1 \in DOMAIN job.dic
        BY <3>1
      <3> QED
        BY <3>2, Zenon
    <2> HIDE DEF ks, words, vs
    <2>3. 1 .. Len(ks) # {}
      BY <1>1, <2>2
    <2>4. ks # <<>>
      BY <2>3
    <2> QED
      BY <2>1, <2>4 DEF InBytes
  <1>3. Binary.cells = cells
    BY DEF Binary
  <1>4. Walks(ks, vs, N, array, size, cells, text, Bases(cells, text))
    <2> HIDE DEF ks, vs, words, cells
    <2>1. Len(text) \in Nat
      OBVIOUS
    <2>2. IsWalk(Bases(cells, text), cells, text, Len(text))
      BY <2>1, BasesWalk
    <2>3. IsPlaced(ks, vs, N, array, size) /\ cells = [p \in 0 .. size - 1 |-> array[p]]
      BY DEF ks, vs, cells
    <2> QED
      BY <1>1, <1>2, <2>2, <2>3 DEF Walks
  <1> HIDE DEF ks, vs, cells
  <1>5. /\ \A r \in CommonPrefixSearch(cells, text) : \E i \in 0 .. Len(text), k \in 1 .. Len(ks) :
             ks[k] = SubSeq(text, 1, i) /\ r = [value |-> vs[k], length |-> i]
        /\ \A i \in 0 .. Len(text), k \in 1 .. Len(ks) : ks[k] = SubSeq(text, 1, i) =>
             \E j \in 1 .. Len(ks) :
               ks[j] = ks[k] /\ [value |-> vs[j], length |-> i] \in CommonPrefixSearch(cells, text)
    BY <1>4, Searched
  <1> DEFINE C == CommonPrefixSearch(cells, text)
  <1>6. Found(Binary, text) = {In(r) : r \in C}
    BY <1>3 DEF Found
  <1> HIDE DEF C, words
  <1>7. ASSUME NEW i \in 0 .. Len(text), NEW k \in 1 .. Len(ks), ks[k] = SubSeq(text, 1, i)
        PROVE  ks[k] \in begun /\ In([value |-> vs[k], length |-> i]) = Out(ks[k])
    <2>1. IsPrefix(ks[k], text)
      BY <1>1, <1>7, PrefixIs, Zenon
    <2> QED
      BY <1>1, <1>7, <2>1, Zenon
  <1> HIDE DEF In, Out
  <1>8. ASSUME NEW r \in C PROVE \E w \in begun : In(r) = Out(w)
    <2>1. PICK i \in 0 .. Len(text), k \in 1 .. Len(ks) :
            ks[k] = SubSeq(text, 1, i) /\ r = [value |-> vs[k], length |-> i]
      BY <1>5 DEF C
    <2> QED
      BY <1>7, <2>1, Zenon
  <1>9. ASSUME NEW w \in begun PROVE \E r \in C : In(r) = Out(w)
    <2>1. PICK k \in 1 .. Len(ks) : ks[k] = w
      BY <1>1
    <2>2. PICK i \in 0 .. Len(text) : ks[k] = SubSeq(text, 1, i)
      BY <1>1, <2>1, PrefixIs, Zenon
    <2>3. PICK j \in 1 .. Len(ks) : ks[j] = ks[k] /\ [value |-> vs[j], length |-> i] \in C
      BY <1>5, <2>2, Zenon DEF C
    <2>4. In([value |-> vs[j], length |-> i]) = Out(w)
      BY <1>7, <2>1, <2>2, <2>3, Zenon
    <2> QED
      BY <2>3, <2>4
  <1> HIDE DEF begun
  <1>10. {In(r) : r \in C} = {Out(w) : w \in begun}
    BY <1>8, <1>9
  <1> QED
    BY <1>6, <1>10 DEF Out, begun, words

LEMMA TextsAre == Texts \subseteq Seq(Bytes)
  <1>1. {1, MaxByte} \subseteq Bytes
    BY ArrayConstants DEF Bytes
  <1>2. ASSUME NEW t \in Texts PROVE t \in Seq(Bytes)
    <2>1. PICK n \in 0 .. 4 : t \in [1 .. n -> {1, MaxByte}]
      BY DEF Texts
    <2>2. t \in [1 .. n -> Bytes]
      BY <1>1, <2>1
    <2> QED
      BY <2>2
  <1> QED
    BY <1>2

(* The words the text begins with, with the tokens of their lines. *)
WordsStarting(text) ==
  {[word |-> w, tokens |-> TokensOfWord(job.dic, w)] :
     w \in {v \in {job.dic[i].word : i \in DOMAIN job.dic} : IsPrefix(v, text)}}
FindsInAnyText ==
  (job # NoJob /\ job.built /\ phase = "built" /\ ~Homographs(job.dic)) =>
    WalksInside /\ \A text \in Seq(Bytes) : Found(Binary, text) = WordsStarting(text)

LEMMA FindsWhenPlaced ==
  ASSUME TypeInv, TrieInv, KeysAt PROVE FindsInAnyText
  <1> SUFFICES ASSUME job # NoJob, job.built, phase = "built", ~Homographs(job.dic)
               PROVE  WalksInside /\ \A text \in Seq(Bytes) : Found(Binary, text) = WordsStarting(text)
    BY DEF FindsInAnyText
  <1>1. IsJob(job) /\ job.dic # <<>> /\ size \in Nat
    BY Zenon DEF TypeInv, WordsInv, JobAt, BuiltAt, ArrayOK
  <1>2. AreEntries(job.dic, job.lsize, job.rsize) /\ AreNoted(job.dic, job.features, job.wakati)
    BY <1>1 DEF IsJob, FeaturesKept
  <1>3. keys = WordsOf(job.dic) /\ values = ValuesOf(job.dic)
    BY DEF KeysAt
  <1>4. keys # <<>>
    <2>1. PICK S : job.dic \in Seq(S)
      BY <1>2 DEF AreEntries
    <2>2. 1 \in DOMAIN job.dic
      BY <1>1, <2>1
    <2>3. PICK i \in 1 .. Len(WordsOf(job.dic)) : WordsOf(job.dic)[i] = job.dic[1].word
      BY <1>2, <2>2, WordsAre, Zenon
    <2> QED
      BY <1>3, <2>3
  <1>5. PICK N : IsPlaced(WordsOf(job.dic), ValuesOf(job.dic), N, array, size)
    BY <1>3, <1>4 DEF TrieInv
  <1>6. WalksInside
    BY <1>1, <1>5, InsideAlways
  <1>7. ASSUME NEW text \in Seq(Bytes) PROVE Found(Binary, text) = WordsStarting(text)
    BY <1>1, <1>2, <1>5, AllFound DEF WordsStarting
  <1> QED
    BY <1>6, <1>7

LEMMA FindsInTexts ==
  ASSUME FindsInAnyText PROVE LookupFinds
  <1>1. \A text \in Texts : text \in Seq(Bytes)
    BY TextsAre
  <1> QED
    BY <1>1 DEF FindsInAnyText, LookupFinds, WordsStarting

-----------------------------------------------------------------------------
(* Outcomes, files, the array and the entries are what they should be in    *)
(* every state of any number of builds: in particular every cell of the    *)
(* array lies inside it and holds a number, whatever words are placed.     *)
THEOREM TypeCorrect == Spec => []TypeOK
  <1>1. Init => TypeInv
    BY TypeInit
  <1>2. TypeInv /\ [Next]_vars => TypeInv'
    BY TypeStep
  <1>3. TypeInv => TypeOK
    BY TypesFrom
  <1> QED
    BY <1>1, <1>2, <1>3, PTL DEF Spec

(* A cell that belongs to a node is never given to another one, however     *)
(* often the array grows (darts.h:149-189): a place is taken only when all  *)
(* its cells are free, growing copies the cells, and the bases written     *)
(* behind the calls leave the checks alone.                                *)
THEOREM PlacesKept == Spec => CellsKept
  <1> DEFINE A == \A p \in DOMAIN array :
                    array[p].check # 0 /\ phase = "insert" /\ phase' # "idle" =>
                      p \in DOMAIN array' /\ array'[p].check = array[p].check
  <1>1. Init => TypeInv
    BY TypeInit
  <1>2. TypeInv /\ [Next]_vars => TypeInv'
    BY TypeStep
  <1>3. TypeInv /\ [Next]_vars => [A]_vars
    BY ArrayKept DEF Kept
  <1> QED
    BY <1>1, <1>2, <1>3, PTL DEF Spec, CellsKept

LEMMA PlacedAlways == Spec => [](TypeInv /\ TrieInv /\ KeysAt)
  <1>1. Init => TypeInv /\ TrieInv /\ KeysAt
    <2>1. ASSUME Init PROVE phase = "idle"
      BY <2>1 DEF Init, ArrayInit
    <2> QED
      BY <2>1, TypeInit DEF TrieInv, KeysAt
  <1>2. TypeInv /\ TrieInv /\ KeysAt /\ [Next]_vars => TypeInv' /\ TrieInv' /\ KeysAt'
    BY TypeStep, TrieKept, KeysKept
  <1> QED
    BY <1>1, <1>2, PTL DEF Spec

(* A lookup in the array that was built finds exactly the words the text     *)
(* begins with, each with the tokens and features of its lines in their     *)
(* order, and no walk reads behind the array (dictionary.cpp:421-469,       *)
(* darts.h:138-214): the cells are a trie over the sorted words, a value    *)
(* leads to the run of sorted entries with its word.  This for every text   *)
(* of bytes, however long.                                                 *)
THEOREM FindsCorrect == Spec => []FindsInAnyText
  BY PlacedAlways, FindsWhenPlaced, PTL

(* The same for the texts that the runs look up (dictionary.cpp:421-469,    *)
(* darts.h:138-214).                                                       *)
THEOREM LookupCorrect == Spec => []LookupFinds
  BY FindsCorrect, FindsInTexts, PTL
==============================================================================
