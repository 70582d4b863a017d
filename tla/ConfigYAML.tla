---------------------------- MODULE ConfigYAML ----------------------------
(***************************************************************************)
(* The strict YAML subset the master configuration is stored in: the       *)
(* parser and the canonical emitter of config/yaml.go.                     *)
(*                                                                         *)
(* A file is a sequence of lines, a line or a text a sequence of           *)
(* characters.  Letters and Digits are a sample of the alphabet; the words *)
(* null, true and false, and the letter of a JSON escape of & < and >, are *)
(* one symbol each.  Encodings, tabs and carriage returns, the size limit, *)
(* the 64-bit range of integers, the positions kept for messages and the   *)
(* comments the emitter writes are left out.                               *)
(***************************************************************************)
EXTENDS Integers, Sequences, SequencesExt

Letters == {"a", "b", "k", "n"}
Digits == {"0", "1"}
Words == {"null", "true", "false"}

(***************************************************************************)
(* Values.  Entries of a mapping carry their key, entries of a list none.  *)
(***************************************************************************)
Value(kind, text, entries) == [kind |-> kind, text |-> text, entries |-> entries]
Text(t) == Value("text", t, <<>>)
Number(t) == Value("number", t, <<>>)
Word(w) == Value("word", <<w>>, <<>>)
Mapping(entries) == Value("mapping", <<>>, entries)
List(items) == Value("list", <<>>, [i \in DOMAIN items |-> [key |-> <<>>, value |-> items[i]]])
Refused == Value("refused", <<>>, <<>>)

Has(text, part) ==
    \E i \in 0 .. Len(text) - Len(part) : SubSeq(text, i + 1, i + Len(part)) = part

TrimRight(text) == SubSeq(text, 1, SelectLastInSeq(text, LAMBDA c : c # " "))
IndentOf(text) == LET first == SelectInSeq(text, LAMBDA c : c # " ")
                  IN  IF first = 0 THEN Len(text) ELSE first - 1
TrimSpace(text) == LET kept == TrimRight(text) IN SubSeq(kept, IndentOf(kept) + 1, Len(kept))

(***************************************************************************)
(* Lines: the comment is cut off outside quotes, and what the subset       *)
(* forbids is looked for in the whole line, quotes or not.                 *)
(***************************************************************************)
ScanQuotes(s, c, atWord) ==
    CASE s.cut -> s
      [] ~s.cut /\ s.in = "double" /\ s.escaped -> [s EXCEPT !.escaped = FALSE]
      [] ~s.cut /\ s.in = "double" /\ ~s.escaped ->
            [s EXCEPT !.escaped = c = "\\", !.in = IF c = "\"" THEN "plain" ELSE "double"]
      [] ~s.cut /\ s.in = "single" -> [s EXCEPT !.in = IF c = "'" THEN "plain" ELSE "single"]
      [] OTHER -> [s EXCEPT !.cut = c = "#" /\ atWord,
                            !.in = CASE c = "\"" -> "double" [] c = "'" -> "single"
                                     [] OTHER -> "plain"]

StripYAMLComment(line) ==
    LET step(s, i) ==
            LET next == ScanQuotes(s, line[i], i = 1 \/ line[i - 1] = " ")
            IN  IF next.cut THEN next ELSE [next EXCEPT !.kept = Append(@, line[i])]
        end == FoldLeftDomain(step, [in |-> "plain", escaped |-> FALSE, cut |-> FALSE,
                                     kept |-> <<>>], line)
    IN  [ok |-> end.cut \/ end.in = "plain", text |-> end.kept]

ForbiddenYAMLSyntax(text) ==
    \/ text \in {<<"-", "-", "-">>, <<".", ".", ".">>}
    \/ Head(text) \in {"%", "&", "*", "!"}
    \/ \E start \in {<<"?", " ">>, <<"<", "<", ":">>} : IsPrefix(start, text)
    \/ \E part \in {<<" ", "&">>, <<" ", "*">>, <<":", " ", "!">>, <<":", " ", "|">>,
                    <<":", " ", ">">>} : Has(text, part)

LineOf(raw) ==
    LET content == StripYAMLComment(raw)
        text == TrimSpace(content.text)
    IN  [indent |-> IndentOf(TrimRight(content.text)), text |-> text,
         ok |-> /\ content.ok
                /\ text # <<>> => /\ IndentOf(content.text) % 2 = 0
                                  /\ ~ForbiddenYAMLSyntax(text)]

(***************************************************************************)
(* Scalars.                                                                *)
(***************************************************************************)
\* integerPattern: an optional minus, then 0 or digits that do not start with 0.
IsInteger(text) ==
    LET digits == IF text # <<>> /\ Head(text) = "-" THEN Tail(text) ELSE text
    IN  /\ digits # <<>> /\ ToSet(digits) \subseteq Digits
        /\ Head(digits) = "0" => Len(digits) = 1

\* numberPattern: an integer, a point, at least one digit.
IsDecimal(text) ==
    \E i \in 2 .. Len(text) - 1 :
        /\ text[i] = "." /\ IsInteger(SubSeq(text, 1, i - 1))
        /\ ToSet(SubSeq(text, i + 1, Len(text))) \subseteq Digits

\* The shortest spelling of a number, the one strconv formats it with.
Shortest(text) ==
    LET kept == IF "." \in ToSet(text)
                THEN LET last == SelectLastInSeq(text, LAMBDA c : c # "0")
                     IN  SubSeq(text, 1, IF text[last] = "." THEN last - 1 ELSE last)
                ELSE text
    IN  IF kept = <<"-", "0">> THEN <<"0">> ELSE kept

\* json.Unmarshal of a text that starts with a double quote.
Unquote(text) ==
    LET step(s, c) ==
            CASE s.escaped -> [s EXCEPT !.escaped = FALSE,
                                        !.ok = @ /\ c \in {"\"", "\\", "u&", "u<", "u>"},
                                        !.out = Append(@, CASE c = "u&" -> "&" [] c = "u<" -> "<"
                                                            [] c = "u>" -> ">" [] OTHER -> c)]
              [] ~s.escaped /\ c = "\\" -> [s EXCEPT !.escaped = TRUE, !.ok = @ /\ ~s.closed]
              [] ~s.escaped /\ c = "\"" -> [s EXCEPT !.closed = TRUE, !.ok = @ /\ ~s.closed]
              [] OTHER -> [s EXCEPT !.out = Append(@, c), !.ok = @ /\ ~s.closed]
        end == FoldLeft(step, [escaped |-> FALSE, closed |-> FALSE, ok |-> TRUE, out |-> <<>>],
                        Tail(text))
    IN  IF end.ok /\ end.closed THEN Text(end.out) ELSE Refused

\* The inside of a single-quoted text, each doubled quote read as one.
Undouble(text) ==
    FoldLeft(LAMBDA s, c : IF c = "'" /\ s.half THEN [s EXCEPT !.half = FALSE]
                           ELSE [half |-> c = "'", out |-> Append(s.out, c)],
             [half |-> FALSE, out |-> <<>>], text).out

ParseYAMLScalar(text) ==
    CASE text = <<"{", "}">> -> Mapping(<<>>)
      [] text = <<"[", "]">> -> List(<<>>)
      [] Len(text) = 1 /\ Head(text) \in Words -> Word(Head(text))
      [] OTHER ->
           CASE Head(text) \in {"[", "{"} -> Refused
             [] Head(text) = "\"" -> Unquote(text)
             [] Head(text) = "'" ->
                  IF Len(text) < 2 \/ Last(text) # "'" THEN Refused
                  ELSE Text(Undouble(SubSeq(text, 2, Len(text) - 1)))
             [] IsInteger(text) \/ IsDecimal(text) -> Number(Shortest(text))
             [] Head(text) \notin {"[", "{", "\"", "'"}
                  /\ (Has(text, <<":", " ">>) \/ IsPrefix(<<"-", " ">>, text)) -> Refused
             [] OTHER -> Text(text)

(***************************************************************************)
(* The recursive descent.  Each operator takes the lines and the index of  *)
(* the next one, and returns the index it stopped at with the value.       *)
(***************************************************************************)
RECURSIVE ParseBlock(_, _, _), ParseMapping(_, _, _, _), ParseSequence(_, _, _, _)

Stop(at, value) == [at |-> at, value |-> value]

\* What follows a key or a dash: a scalar on the line, or the block of the next lines.
ParseNested(lines, at, indent, rest) ==
    CASE rest # <<>> -> Stop(at + 1, ParseYAMLScalar(rest))
      [] rest = <<>> /\ at < Len(lines) /\ lines[at + 1].indent = indent + 2 ->
            ParseBlock(lines, at + 1, indent + 2)
      [] OTHER -> Stop(at, Refused)

ParseBlock(lines, at, indent) ==
    CASE lines[at].indent # indent -> Stop(at, Refused)
      [] lines[at].indent = indent /\ Head(lines[at].text) = "-" ->
            ParseSequence(lines, at, indent, <<>>)
      [] OTHER -> ParseMapping(lines, at, indent, <<>>)

KeyPattern(key) == Head(key) \in Letters /\ ToSet(key) \subseteq Letters \union Digits

ParseMapping(lines, at, indent, entries) ==
    IF at > Len(lines) \/ lines[at].indent < indent
    THEN Stop(at, Mapping(entries))
    ELSE LET text == lines[at].text
             colon == SelectInSeq(text, LAMBDA c : c = ":")
             key == SubSeq(text, 1, colon - 1)
             nested == ParseNested(lines, at, indent, TrimSpace(SubSeq(text, colon + 1, Len(text))))
         IN  IF \/ lines[at].indent > indent \/ Head(text) = "-"
                \/ colon <= 1 \/ ~KeyPattern(key)
                \/ \E i \in DOMAIN entries : entries[i].key = key
                \/ nested.value = Refused
             THEN Stop(at, Refused)
             ELSE ParseMapping(lines, nested.at, indent,
                               Append(entries, [key |-> key, value |-> nested.value]))

ParseSequence(lines, at, indent, entries) ==
    IF at > Len(lines) \/ lines[at].indent < indent
    THEN Stop(at, Value("list", <<>>, entries))
    ELSE LET text == lines[at].text
             nested == ParseNested(lines, at, indent, TrimSpace(Tail(text)))
         IN  IF \/ lines[at].indent # indent \/ Head(text) # "-"
                \/ Len(text) > 1 /\ text[2] # " "
                \/ nested.value = Refused
             THEN Stop(at, Refused)
             ELSE ParseSequence(lines, nested.at, indent,
                                Append(entries, [key |-> <<>>, value |-> nested.value]))

ParseYAML(file) ==
    LET read == [i \in DOMAIN file |-> LineOf(file[i])]
        lines == SelectSeq(read, LAMBDA l : l.text # <<>>)
        root == ParseBlock(lines, 1, 0)
    IN  IF \/ \E i \in DOMAIN read : ~read[i].ok
           \/ lines = <<>>
        THEN Refused
        ELSE IF root.at # Len(lines) + 1 \/ root.value.kind # "mapping" THEN Refused
             ELSE root.value

(***************************************************************************)
(* The emitter.  A schema node is [order, secret, properties], properties  *)
(* a function from keys; a leaf has none.                                  *)
(***************************************************************************)
PlainSafe(text) ==
    /\ text # <<>> /\ TrimSpace(text) = text
    /\ "#" \notin ToSet(text) /\ ~Has(text, <<":", " ">>)
    /\ text \notin {<<"{", "}">>, <<"[", "]">>} \union {<<w>> : w \in Words}
    /\ ~IsInteger(text) /\ ~IsDecimal(text)

\* json.Marshal of a text.
Quote(text) ==
    LET escape(c) == CASE c \in {"\"", "\\"} -> <<"\\", c>>
                       [] c = "&" -> <<"\\", "u&">> [] c = "<" -> <<"\\", "u<">>
                       [] c = ">" -> <<"\\", "u>">> [] OTHER -> <<c>>
    IN  <<"\"">> \o FlattenSeq([i \in DOMAIN text |-> escape(text[i])]) \o <<"\"">>

EmitScalar(value, node) ==
    IF value.kind = "text" /\ (node.secret \/ ~PlainSafe(value.text))
    THEN Quote(value.text)
    ELSE value.text

\* metaNode refuses two properties with one order, so the order sorts the keys.
OrderedPropertyKeys(properties) ==
    SetToSortSeq(DOMAIN properties, LAMBDA k, l : properties[k].order < properties[l].order)

\* A key the value lacks is emitted as null.
ItemAt(value, key) ==
    LET at == SelectInSeq(value.entries, LAMBDA e : e.key = key)
    IN  IF at = 0 THEN Word("null") ELSE value.entries[at].value

Spaces(n) == [i \in 1 .. n |-> " "]

RECURSIVE EmitObject(_, _, _)
EmitObject(node, value, indent) ==
    LET keys == OrderedPropertyKeys(node.properties)
        lines(key) ==
            LET child == node.properties[key]
                item == ItemAt(value, key)
                prefix == Spaces(indent) \o key \o <<":">>
            IN  CASE item.kind = "mapping" /\ item.entries = <<>> -> <<prefix \o <<" ", "{", "}">>>>
                  [] item.kind = "list" /\ item.entries = <<>> -> <<prefix \o <<" ", "[", "]">>>>
                  [] item.kind = "mapping" /\ item.entries # <<>> ->
                        <<prefix>> \o EmitObject(child, item, indent + 2)
                  [] item.kind = "list" /\ item.entries # <<>> ->
                        <<prefix>> \o [i \in DOMAIN item.entries |->
                            Spaces(indent + 2) \o <<"-", " ">>
                                \o EmitScalar(item.entries[i].value, child)]
                  [] OTHER -> <<prefix \o <<" ">> \o EmitScalar(item, child)>>
    IN  FlattenSeq([i \in DOMAIN keys |-> lines(keys[i])])

Emit(node, value) == EmitObject(node, value, 0)
=============================================================================
