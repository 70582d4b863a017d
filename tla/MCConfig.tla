------------------------------ MODULE MCConfig ------------------------------
(***************************************************************************)
(* The configuration's pure functions over bounded inputs, each compared   *)
(* with a definition that does not follow the code.                        *)
(***************************************************************************)
EXTENDS ConfigYAML, ConfigSchema, ConfigLoad, TLC

Leaf(order) == [order |-> order, secret |-> FALSE, properties |-> <<>>]

----------------------------------------------------------------------------
(***************************************************************************)
(* What is written for a text setting, and what is read back.              *)
(***************************************************************************)
OneText == [properties |-> <<"k">> :> Leaf(1)]
ReadBack(t) == ParseYAML(Emit(OneText, Mapping(<<[key |-> <<"k">>, value |-> Text(t)]>>)))
Survives(t) == ReadBack(t) = Mapping(<<[key |-> <<"k">>, value |-> Text(t)]>>)

\* The quoted runs of a line close: no quote is left open at its end.
RECURSIVE Closes(_)
Closes(t) ==
    \/ t = <<>>
    \/ Head(t) \notin {"\"", "'"} /\ Closes(Tail(t))
    \/ Head(t) \in {"\"", "'"} /\ \E i \in 2 .. Len(t) :
            /\ t[i] = Head(t)
            /\ \A j \in 2 .. i - 1 : t[j] # Head(t)
            /\ Closes(SubSeq(t, i + 1, Len(t)))

\* A text written as it is comes back unless it looks like YAML or leaves a quote open.
PlainComesBack(t) ==
    /\ Head(t) \notin {"[", "{", "\"", "'", "!", "&", "*", "|", ">"}
    /\ ~IsPrefix(<<"-", " ">>, t)
    /\ ~Has(t, <<" ", "&">>) /\ ~Has(t, <<" ", "*">>)
    /\ Closes(t)

\* A text written in quotes comes back unless what the subset forbids is seen inside them.
QuotedComesBack(t) ==
    ~Has(t, <<" ", "*">>) /\ ~Has(t, <<":", " ", "!">>) /\ ~Has(t, <<":", " ", "|">>)

SampleTexts == BoundedSeq({"a", "1", " ", ":", "-", "#", "&", "*", "!", "|", "\"", "'", "[", "true"}, 3)

\* Which saved texts the next start reads back: those in quotes without the
\* forbidden pairs, those in the open that do not look like YAML (yaml.go).
ASSUME SavedTextsReadBack ==
    \A t \in SampleTexts :
        Survives(t) <=> IF PlainSafe(t) THEN PlainComesBack(t) ELSE QuotedComesBack(t)

\* A text that does not come back as it was is refused, except one that starts
\* and ends with the same quote, which loses its quotes (yaml.go:275-286).
ASSUME OtherTextsAreRefused ==
    \A t \in SampleTexts :
        \/ Survives(t) \/ ReadBack(t) = Refused
        \/ Len(t) > 1 /\ t[1] = Last(t) /\ t[1] \in {"\"", "'"}

\* The escapes of a quoted text are undone by the reader's own decoder.
ASSUME QuoteRoundTrips ==
    \A t \in BoundedSeq({"a", "\"", "\\", "&", "<", "'", " "}, 4) : Unquote(Quote(t)) = Text(t)

----------------------------------------------------------------------------
(***************************************************************************)
(* Which files are read, and that a saved tree is.                         *)
(***************************************************************************)
\* Lines as the grammar sees them: a key or a dash, with a scalar after it or open.
Shapes == [indent : {0, 1, 2, 4}, mark : {"a", "b", "-"}, open : BOOLEAN]
LineFor(s) ==
    Spaces(s.indent) \o (IF s.mark = "-" THEN <<"-">> ELSE <<s.mark, ":">>)
                     \o (IF s.open THEN <<>> ELSE <<" ", "n">>)

\* Two lines belong to one block: the same indentation, and nothing less between.
Siblings(shapes, i, j) ==
    /\ i < j /\ shapes[i].indent = shapes[j].indent
    /\ \A k \in i .. j : shapes[k].indent >= shapes[i].indent

WellNested(shapes) ==
    /\ shapes # <<>> /\ shapes[1].indent = 0 /\ shapes[1].mark # "-"
    /\ \A i \in DOMAIN shapes :
        /\ shapes[i].indent % 2 = 0
        /\ shapes[i].open => i < Len(shapes) /\ shapes[i + 1].indent = shapes[i].indent + 2
        /\ ~shapes[i].open /\ i < Len(shapes) => shapes[i + 1].indent <= shapes[i].indent
        /\ \A j \in DOMAIN shapes : Siblings(shapes, i, j) =>
              IF shapes[i].mark = "-" THEN shapes[j].mark = "-"
              ELSE shapes[j].mark \notin {"-", shapes[i].mark}

\* The descent reads exactly the files whose indentation makes a tree of
\* mappings with distinct keys and of lists (yaml.go:142-257).
ASSUME WellNestedFilesAreRead ==
    \A shapes \in BoundedSeq(Shapes, 3) :
        (ParseYAML([i \in DOMAIN shapes |-> LineFor(shapes[i])]) # Refused) <=> WellNested(shapes)

\* A schema with a nested object, a list and a secret, and the trees it can hold.
Nested == [order |-> 2, secret |-> FALSE,
           properties |-> <<"a">> :> [Leaf(7) EXCEPT !.secret = TRUE] @@ <<"b">> :> Leaf(3)]
TreeSchema == [properties |-> <<"a">> :> Leaf(3) @@ <<"b">> :> Nested @@ <<"k">> :> Leaf(1)]
Scalars == {Text(<<"a", " ", "b">>), Text(<<"1">>), Text(<<>>), Text(<<"a", " ", "#">>),
            Text(<<"true">>), Number(<<"-", "1", "0">>), Number(<<"1", ".", "0", "1">>),
            Word("false"), Word("null")}
Trees ==
    {Mapping(<<[key |-> <<"k">>, value |-> v],
               [key |-> <<"b">>, value |->
                    IF w = Word("null") THEN Mapping(<<>>)
                    ELSE Mapping(<<[key |-> <<"b">>, value |-> w], [key |-> <<"a">>, value |-> v]>>)],
               [key |-> <<"a">>, value |-> List(items)]>>)
        : v, w \in Scalars, items \in {<<>>, <<Text(<<"a">>)>>, <<Text(<<"-">>), Text(<<"1">>)>>}}

\* A saved tree of ordinary values is read back as it was, its keys in schema order.
ASSUME SavedTreesReadBack == \A t \in Trees : ParseYAML(Emit(TreeSchema, t)) = t

\* A number is read back as the same number however the file spells it.
ASSUME NumbersReadBack ==
    \A t \in BoundedSeq({"0", "1", "-", "."}, 4) :
        IsInteger(t) \/ IsDecimal(t) =>
            /\ ParseYAMLScalar(t) = Number(Shortest(t))
            /\ ParseYAMLScalar(Shortest(t)) = Number(Shortest(t))

----------------------------------------------------------------------------
(***************************************************************************)
(* The schema.                                                             *)
(***************************************************************************)
Plain(type) == [type |-> type, ref |-> "", default |-> {}, const |-> {}, enum |-> {}, low |-> 0,
                high |-> 4, properties |-> <<>>, required |-> {}, items |-> {}, unique |-> FALSE,
                secret |-> {}, restart |-> "controller", readonly |-> FALSE,
                order |-> 0]
Atom(kind, n) == Datum(kind, n, <<>>)
Items(values) == Datum("array", 0, [i \in DOMAIN values |-> [key |-> 0, value |-> values[i]]])
Object(of) == Datum("object", 0, LET keys == SetToSortSeq(DOMAIN of, <)
                                 IN  [i \in DOMAIN keys |-> [key |-> keys[i], value |-> of[keys[i]]]])

\* The data a node stands for, built from the node instead of checked against it.
RECURSIVE Members(_)
Members(node) ==
    LET all == CASE node.type = "boolean" -> {Atom("boolean", n) : n \in 0 .. 1}
                 [] node.type = "string" -> {Atom("string", n) : n \in node.low .. node.high}
                 [] node.type = "integer" ->
                        {Atom("number", n) : n \in {m \in node.low .. node.high : m % 2 = 0}}
                 [] node.type = "number" -> {Atom("number", n) : n \in node.low .. node.high}
                 [] node.type = "array" ->
                        LET of == UNION {Members(item) : item \in node.items}
                        IN  {Items(s) : s \in {t \in BoundedSeq(of, 2) :
                                                 node.unique => \A i, j \in DOMAIN t :
                                                                  i # j => t[i] # t[j]}}
                 [] node.type = "object" ->
                        LET of == UNION {Members(node.properties[k]) : k \in DOMAIN node.properties}
                        IN  {Object(f) : f \in {g \in [DOMAIN node.properties -> of] :
                              \A k \in DOMAIN g : g[k] \in Members(node.properties[k])}}
    IN  {d \in all : /\ node.const # {} => d \in node.const
                     /\ node.enum # {} => d \in node.enum}

SampleLeaves ==
    {Plain(type) : type \in {"boolean", "string", "integer", "number"}}
    \union {[Plain("string") EXCEPT !.low = 1, !.high = 2],
            [Plain("integer") EXCEPT !.enum = {Atom("number", 2), Atom("number", 6)}],
            [Plain("integer") EXCEPT !.const = {Atom("number", 2)}]}
SampleNodes ==
    SampleLeaves
    \union {[Plain("array") EXCEPT !.items = {leaf}, !.unique = u]
              : leaf \in {Plain("string"), Plain("boolean")}, u \in BOOLEAN}
    \union {[Plain("object") EXCEPT !.properties = <<a, b>>, !.required = {1, 2}]
              : a \in {Plain("boolean"), [Plain("object") EXCEPT !.properties = <<Plain("boolean")>>,
                                                                 !.required = {1}]},
                b \in {[Plain("integer") EXCEPT !.low = 2]}}

SampleAtoms == {Atom("boolean", n) : n \in 0 .. 1} \union {Atom("null", 0)}
               \union {Atom(kind, n) : kind \in {"string", "number"}, n \in 0 .. 5}
SampleData ==
    LET few == {Atom("boolean", 1), Atom("string", 1), Atom("number", 2), Atom("number", 3),
                Object(1 :> Atom("boolean", 0)), Object(2 :> Atom("boolean", 0))}
    IN  SampleAtoms \union {Items(s) : s \in BoundedSeq(few, 2)}
        \union UNION {{Object(f) : f \in [K -> few]} : K \in SUBSET {1, 2, 3}}

\* No issue is raised exactly for the data the schema stands for (schema.go:765-866).
ASSUME ValidMeansMember ==
    \A node \in SampleNodes, d \in SampleData :
        ValidateNode(node, d, <<>>) = <<>> <=> d \in Members(node)

\* However many issues there are, at most one line more than the limit is
\* reported, and no issue is left uncounted (schema.go:749-756).
ASSUME ReportIsBounded ==
    \A n \in 0 .. 30 :
        LET report == Reported([i \in 1 .. n |-> Issue(<<i>>, "type")])
        IN  /\ Len(report) <= MaxIssues + 1
            /\ n = IF n > MaxIssues THEN MaxIssues + report[Len(report)].omitted ELSE Len(report)

\* Telegram settings pass exactly when an enabled bot has a reference and a
\* chat, and a disabled one no literal token (schema.go:728-747).
ASSUME TelegramNeedsTokenAndChats ==
    \A enabled \in BOOLEAN, token \in {"none", "reference", "literal"}, chats \in 0 .. 2 :
        TelegramIssues(enabled, token, chats) = <<>>
            <=> \/ token = "reference" /\ (enabled => chats > 0)
                \/ token = "none" /\ ~enabled

\* Schemas of two settings, whole or spoiled in one place.
SampleDefaults == {{}} \union {{Atom("boolean", 1)}, {Atom("number", 2)}, {Atom("number", 9)}}
SampleSettings ==
    {[Plain(type) EXCEPT !.default = d, !.order = o, !.restart = r]
        : type \in {"boolean", "integer"}, d \in SampleDefaults, o \in 0 .. 1, r \in {"", "none", "all"}}
    \union {[Plain("string") EXCEPT !.ref = "d"]}
SampleRoots ==
    {[Plain("object") EXCEPT !.properties = <<a, b>>, !.required = K, !.restart = "",
                             !.default = {Object(extra)}]
        : a \in SampleSettings, b \in {s \in SampleSettings : s.restart # "none"},
          K \in {{1}, {1, 2}, {1, 2, 3}}, extra \in {<<>>, 3 :> Atom("boolean", 0)}}

\* A schema that passes the meta-schema has valid defaults, no reference among its
\* settings, and an order that tells its settings apart (schema.go:106-318).
ASSUME MetaSchemaGivesDefaults ==
    \A root \in SampleRoots :
        MetaValidate(root, "d" :> Plain("string")) =>
            /\ ValidateNode(root, DefaultsFor(root), <<>>) = <<>>
            /\ \A k \in 1 .. 2 : root.properties[k].ref = ""
            /\ root.properties[1].order # 0 => root.properties[1].order # root.properties[2].order
ASSUME SomeSchemaPasses == \E root \in SampleRoots : MetaValidate(root, "d" :> Plain("string"))

\* A secret may wait for a boolean setting and for nothing else (schema.go:163-190).
ASSUME SecretsWaitForFlags ==
    \A ttl \in {-1, 0, 300, 86401}, when \in {{}} \union {{<<k>>} : k \in 1 .. 3} :
        LET flag == [Plain("boolean") EXCEPT !.default = {Atom("boolean", 0)}]
            secret == [Plain("string") EXCEPT !.default = {Atom("string", 0)},
                                              !.secret = {[ttl |-> ttl, resolveWhen |-> when]}]
            root == [Plain("object") EXCEPT !.properties = <<flag, secret>>, !.required = {1, 2}]
        IN  MetaValidate(root, <<>>) <=> ttl \in {0, 300} /\ when \in {{}, {<<1>>}}

\* Definitions that stand for one another are accepted exactly when none leads
\* back to itself (schema.go:113-129).
DefinitionNames == {"d", "e", "f"}
ASSUME CyclicReferencesRefused ==
    \A ref \in [DefinitionNames -> DefinitionNames \union {""}] :
        LET after[n \in 0 .. 3] == IF n = 0 THEN [d \in DefinitionNames |-> d]
                                   ELSE [d \in DefinitionNames |->
                                           IF after[n - 1][d] = "" THEN "" ELSE ref[after[n - 1][d]]]
            root == [Plain("object") EXCEPT !.restart = ""]
        IN  MetaValidate(root, [d \in DefinitionNames |-> [Plain("string") EXCEPT !.ref = ref[d]]])
            <=> \A d \in DefinitionNames : after[3][d] = ""

\* Secrets that wait for settings are accepted exactly when no chain of waiting
\* closes (schema.go:628-653).
ASSUME CyclicConditionsRefused ==
    \A edges \in UNION {[D -> 1 .. 3] : D \in SUBSET (1 .. 3)} :
        ValidateSecretConditions(edges)
            <=> ~\E S \in SUBSET DOMAIN edges : S # {} /\ \A s \in S : edges[s] \in S

----------------------------------------------------------------------------
(***************************************************************************)
(* Loading.                                                                *)
(***************************************************************************)
Digit(n) == Setting("digits", n, "")
Literal(w) == Setting("text", 0, w)
Partial(choices) == \* Functions from some of the keys of choices to a value of each.
    UNION {{f \in [K -> UNION {choices[k] : k \in K}] : \A k \in K : f[k] \in choices[k]}
             : K \in SUBSET DOMAIN choices}
Listed(S) == FoldSet(LAMBDA p, s : Append(s, p), <<>>, S)
AnyOrder == Listed(Paths)

\* The orders in which the three settings the inference port touches are met.
PortPaths == {"llama.address", "health.llamaURL", "llama.chatCompletionsURL"}
Orders == {o \o Listed(Paths \ PortPaths) : o \in SetToSeqs(PortPaths)}

PortFiles == Partial("llama.chatCompletionsURL" :> {URL("/v1/chat/completions", 8081),
                                                   URL("/v1/chat/completions", 9000)}
                     @@ "health.llamaURL" :> {URL("/health", 8081), URL("/health", 9000)})
PortEnvs == Partial("VM_LLAMA_PORT" :> {Digit(9000), Digit(8082), Digit(0), Blank}
                    @@ "VM_LLAMA_HEALTH_URL" :> {Blank, URL("/health", 9000)})

\* The defaults load, each setting at its default.
ASSUME DefaultsLoad ==
    LET loaded == Load(<<>>, <<>>, AnyOrder, {})
    IN  loaded.ok /\ \A p \in Paths \ {"tts.cacheDirectory"} : loaded.effective[p] = Defaults[p]

\* The order in which a map hands out its keys decides the result only where the
\* port variable is good and the health variable is set but empty: the start then
\* succeeds or fails by chance (load.go:226-299).
ASSUME OrderMattersOnlyThere ==
    \A file \in PortFiles, env \in PortEnvs :
        Cardinality({Load(file, env, o, {}) : o \in Orders}) > 1
            <=> /\ "VM_LLAMA_PORT" \in DOMAIN env /\ env["VM_LLAMA_PORT"] = Digit(9000)
                /\ "VM_LLAMA_HEALTH_URL" \in DOMAIN env /\ env["VM_LLAMA_HEALTH_URL"] = Blank
                /\ AbsentOrDefault(file, "health.llamaURL")

\* Elsewhere a port variable is accepted exactly when the port is free and both
\* URLs follow it or already name it (load.go:279-311, 602-610).
ASSUME PortVariableAccepted ==
    \A file \in PortFiles, env \in PortEnvs, o \in Orders :
        LET port == IF "VM_LLAMA_PORT" \in DOMAIN env THEN env["VM_LLAMA_PORT"] ELSE Digit(8081)
            given(url) == IF url \in DOMAIN file THEN file[url].n ELSE 8081
            named(url, name) ==
                IF EnvText(env, name) # Blank THEN env[name].n
                ELSE IF "VM_LLAMA_PORT" \in DOMAIN env /\ given(url) = 8081 THEN port.n
                ELSE given(url)
        IN  ~("VM_LLAMA_HEALTH_URL" \in DOMAIN env /\ env["VM_LLAMA_HEALTH_URL"] = Blank) =>
            (Load(file, env, o, {}).ok
                <=> /\ port.n \in {8081, 9000}
                    /\ named("llama.chatCompletionsURL", "") = port.n
                    /\ named("health.llamaURL", "VM_LLAMA_HEALTH_URL") = port.n)

\* Each setting takes its variable's value, else the file's, else the default;
\* a whole reference stands for what the environment holds (load.go:176-277, 321-370).
PlainFiles == Partial("llama.threads" :> {Integer(4), EnvRef("N"), Literal("fast")}
                      @@ "integrations.telegram.enabled" :> {Flag(FALSE), EnvRef("ON")})
PlainEnvs == Partial("VM_THREADS" :> {Digit(2), Literal("two"), Blank} @@ "N" :> {Digit(8), Literal("n")}
                     @@ "ON" :> {Setting("false", 0, ""), Digit(0)})
ASSUME LastSourceWins ==
    \A file \in PlainFiles, env \in PlainEnvs :
        LET loaded == Load(file, env, AnyOrder, {})
            source(p) == IF Settings[p].env \in DOMAIN env THEN "legacy-env"
                         ELSE IF p \in DOMAIN file THEN "yaml" ELSE "default"
            written(p) == CASE source(p) = "legacy-env" -> Integer(env[Settings[p].env].n)
                            [] source(p) = "yaml" -> file[p]
                            [] OTHER -> Defaults[p]
            meant(p) == LET v == written(p)
                        IN  CASE v.form = "${env}" /\ v.name = "N" -> Integer(env["N"].n)
                              [] v.form = "${env}" /\ v.name = "ON" -> Flag(FALSE)
                              [] OTHER -> v
            wrong == \/ "llama.threads" \in DOMAIN file /\ file["llama.threads"].form = "text"
                     \/ "VM_THREADS" \in DOMAIN env /\ env["VM_THREADS"].form # "digits"
                     \/ /\ source("llama.threads") = "yaml" /\ file["llama.threads"] = EnvRef("N")
                        /\ EnvText(env, "N").form # "digits"
                     \/ /\ source("integrations.telegram.enabled") = "yaml"
                        /\ file["integrations.telegram.enabled"].form = "${env}"
                        /\ EnvText(env, "ON").form # "false"
        IN  /\ loaded.ok <=> ~wrong
            /\ loaded.ok => \A p \in DOMAIN file \union {"llama.threads"} :
                  loaded.effective[p] = meant(p) /\ loaded.sources[p] = source(p)

\* A save is accepted exactly when the file it writes loads, with the same result;
\* only the sources of settings left out before differ (export.go:385-432).
ASSUME SavedConfigurationLoads ==
    \A file \in PlainFiles \union PortFiles,
       env \in {<<>>, "VM_LLAMA_PORT" :> Digit(9000), "N" :> Digit(8) @@ "ON" :> Setting("false", 0, "")} :
        LET partial == Load(file, env, AnyOrder, {})
            saved == ValidateRaw(OverlayConfig(file), env, AnyOrder, {})
        IN  /\ saved = Load(OverlayConfig(file), env, AnyOrder, {})
            /\ partial.ok = saved.ok
            /\ saved.ok => partial.effective = saved.effective

\* Secrets: an unreadable token leaves Telegram without one and never stops the
\* start, an unreadable password does; a reference in the file beats the old
\* variable, which is still named as the source (load.go:372-434).
SecretFiles == Partial("mail.smarthost.password" :> {FileRef("p"), EnvRef("q"), Literal("literal")}
                       @@ "integrations.telegram.botToken" :> {FileRef("t")}
                       @@ "integrations.telegram.enabled" :> {Flag(TRUE)})
SecretEnvs == Partial("VM_MAIL_SMARTHOST_PASS" :> {Literal("old"), FileRef("r"), Blank})
ASSUME SecretsResolve ==
    \A part \in SecretFiles, env \in SecretEnvs,
       available \in SUBSET {FileRef("p"), EnvRef("q"), FileRef("r"), FileRef("t")} :
        LET file == part @@ "mail.smarthost.username" :> Literal("u")
                         @@ "mail.smarthost.host" :> Literal("h")
                         @@ "integrations.telegram.allowedChatIds" :> Setting("list", 1, "")
            loaded == Load(file, env, AnyOrder, available)
            inFile == IF "mail.smarthost.password" \in DOMAIN part
                      THEN part["mail.smarthost.password"] ELSE Blank
            old == EnvText(env, "VM_MAIL_SMARTHOST_PASS")
            used == IF inFile # Blank /\ ~("VM_MAIL_SMARTHOST_PASS" \in DOMAIN env /\ old = Blank)
                    THEN inFile ELSE old
            enabled == "integrations.telegram.enabled" \in DOMAIN part
            token == "integrations.telegram.botToken" \in DOMAIN part
        IN  /\ loaded.ok <=> /\ enabled => token
                             /\ \/ used.form = "text" /\ used = old
                                \/ used \in available
            /\ loaded.ok =>
                /\ loaded.effective["mail.smarthost.password"] = Setting("text", 0, used.name)
                /\ loaded.sources["mail.smarthost.password"] = "legacy-env"
                     <=> "VM_MAIL_SMARTHOST_PASS" \in DOMAIN env
                /\ loaded.effective["integrations.telegram.botToken"] # Blank
                     <=> enabled /\ token /\ FileRef("t") \in available

\* No two services of an accepted configuration share a port spelled the same way;
\* a leading zero and a URL without a port escape the comparison (load.go:646-664).
PortValues == {Address(7000), Setting("address", 7000, "0"), Address(8082)}
ASSUME PortsAreDistinct ==
    \A http, valkey \in PortValues, cdp \in {URL("/", 0), URL("/", 7000), URL("/", 9222)} :
        LET c == [[[Defaults EXCEPT !["server.httpAddress"] = http] EXCEPT
                     !["valkey.address"] = valkey] EXCEPT !["desktop.cdpURL"] = cdp]
            spelled == <<http.n, http.name>>
        IN  ValidateSemantic(c)
              <=> /\ http # valkey /\ http.n # 8082 /\ valkey.n # 8082
                  /\ cdp.n # 7000 \/ Address(7000) \notin {http, valkey}

\* Something restarts exactly when a class changed; then the controller does, last
\* and once, and with it every service of every changed class (export.go:220-259).
ASSUME RestartsCoverChanges ==
    \A classes \in SUBSET {"all", "desktop", "valkey", "llama", "ttsd", "mail", "controller"} :
        LET restarted == RestartServices(classes)
        IN  /\ restarted = <<>> <=> classes = {}
            /\ classes # {} => Last(restarted) = "controller"
            /\ IsInjective(restarted)
            /\ \A c \in classes \ {"all"} : ToSet(ServicesOf(c)) \subseteq ToSet(restarted)
            /\ "all" \in classes => Len(restarted) = 11
=============================================================================
