------------------------------- MODULE Options -------------------------------
(* Options (param.cpp, utils.cpp): what the command line, the resource file *)
(* and the dicrc of a dictionary say, from the defaults on.  A             *)
(* configuration is a function from the options that are set to values.     *)
EXTENDS Sequences, Naturals

NullText == ""   \* the text of no characters
Refused == [is |-> "refused"]
Conf(c, rest) == [is |-> "conf", conf |-> c, rest |-> rest]
Set(conf, name, v) == [k \in DOMAIN conf \cup {name} |-> IF k = name THEN v ELSE conf[k]]

(* Param::load: a line sets an option that is not set yet; a line without a *)
(* "=" refuses the file (the options set before it stay, and nobody reads  *)
(* them: every caller gives up).                                           *)
Readable(lines) == \A i \in DOMAIN lines : "key" \in DOMAIN lines[i]
Load(conf, lines) ==
  LET Names == {lines[i].key : i \in DOMAIN lines}
      Of(k) == lines[CHOOSE i \in DOMAIN lines :
                       lines[i].key = k /\ \A j \in DOMAIN lines : lines[j].key = k => i <= j]
  IN  [k \in DOMAIN conf \cup Names |-> IF k \in DOMAIN conf THEN conf[k] ELSE Of(k).value]

(* Param::open: an argument is a word, or a dash or two before the name of  *)
(* an option; the value comes with it or is the next argument.  An option  *)
(* that does not exist, lacks its value or must not have one is refused.   *)
Parse(options, st, arg) ==
  LET Named(o) == IF arg.dashes = 2 THEN o.name = arg.name ELSE o.short = arg.name
      hits == {i \in DOMAIN options : Named(options[i])}
      o == options[CHOOSE i \in hits : \A j \in hits : i <= j]
  IN  IF st.refused \/ st.ended THEN st
      ELSE IF st.awaits # NullText THEN [st EXCEPT !.conf = Set(@, st.awaits, arg.text), !.awaits = NullText]
      ELSE IF arg.dashes = 0 THEN [st EXCEPT !.rest = Append(@, arg.text)]
      ELSE IF arg.name = NullText THEN [st EXCEPT !.ended = arg.dashes = 2]
      ELSE IF hits = {} THEN [st EXCEPT !.refused = TRUE]
      ELSE IF ~o.takes THEN [st EXCEPT !.refused = arg.given, !.conf = Set(@, o.name, TRUE)]
      ELSE IF arg.given THEN [st EXCEPT !.conf = Set(@, o.name, arg.value)]
      ELSE [st EXCEPT !.awaits = o.name]

OpenParam(options, defaults, args) ==
  LET st[i \in 0 .. Len(args)] ==
        IF i = 0 THEN [conf |-> defaults, rest |-> <<>>, awaits |-> NullText, refused |-> FALSE, ended |-> FALSE]
        ELSE Parse(options, st[i - 1], args[i])
      end == st[Len(args)]
  IN  IF end.refused \/ end.awaits # NullText THEN Refused ELSE Conf(end.conf, end.rest)

(* param.get: an option that is not set has the default of its type.         *)
Get(conf, name, default) == IF name \in DOMAIN conf THEN conf[name] ELSE default
=============================================================================
