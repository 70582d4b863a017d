---------------------------- MODULE ConfigLoad ----------------------------
(***************************************************************************)
(* How the running configuration is made of the schema's defaults, the     *)
(* YAML file, the old environment variables and what references stand for: *)
(* config/load.go, with config/export.go's ValidateRaw and RestartServices. *)
(*                                                                         *)
(* A configuration is a function from setting paths.  A setting's value is *)
(* [form, n, name]: an "address" or a URL (its form is its path) on port n *)
(* of the loopback interface, name "0" when the port is spelled with a     *)
(* leading zero; "digits" or any other text; "${env}" or "${file}", a      *)
(* reference to name; an "integer", a "boolean", a "list".  The empty form *)
(* is the empty text.  Hosts, file paths, display names and durations are  *)
(* left out, as is the decoding into the typed structure.                  *)
(***************************************************************************)
EXTENDS Integers, Sequences, SequencesExt, TLC

Setting(form, n, name) == [form |-> form, n |-> n, name |-> name]
Blank == Setting("", 0, "")
Integer(n) == Setting("integer", n, "")
Flag(b) == Setting("boolean", IF b THEN 1 ELSE 0, "")
Address(port) == Setting("address", port, "")
URL(path, port) == Setting(path, port, "")
EnvRef(name) == Setting("${env}", 0, name)
FileRef(name) == Setting("${file}", 0, name)

URLPaths == {"/", "/v1/chat/completions", "/health", "/healthz"}
TextForms == {"", "text", "digits", "true", "false", "address", "${env}", "${file}", "${...}",
              "${data}"} \union URLPaths
TypeOf(value) == IF value.form \in TextForms THEN "string"
                 ELSE IF value.form \in {"list", "list with reference"} THEN "array" ELSE value.form

(***************************************************************************)
(* The settings: type, default, old variable, restart class; whether the   *)
(* text may be empty, whether it is a secret and the flag it waits for,    *)
(* whether its default may start with the data directory.                  *)
(***************************************************************************)
Row(type, default, env, restart) ==
    [type |-> type, default |-> default, env |-> env, restart |-> restart,
     blank |-> FALSE, secret |-> FALSE, when |-> "", data |-> FALSE]

Settings ==
    "server.httpAddress" :> Row("string", Address(8080), "VM_HTTP_ADDR", "controller")
 @@ "server.desktopProxyURL" :> Row("string", URL("/", 6080), "", "controller")
 @@ "desktop.vncAddress" :> Row("string", Address(5900), "VM_VNC_ADDR", "desktop")
 @@ "desktop.noVNCAddress" :> Row("string", Address(6080), "", "desktop")
 @@ "desktop.noVNCUpstreamAddress" :> Row("string", Address(5900), "", "desktop")
 @@ "desktop.cdpURL" :> Row("string", URL("/", 9222), "", "desktop")
 @@ "valkey.address" :> Row("string", Address(6379), "VM_VALKEY_ADDR", "valkey")
 @@ "llama.address" :> Row("string", Address(8081), "VM_LLAMA_PORT", "llama")
 @@ "llama.threads" :> Row("integer", Integer(0), "VM_THREADS", "llama")
 @@ "llama.chatCompletionsURL" :> Row("string", URL("/v1/chat/completions", 8081), "", "controller")
 @@ "tts.address" :> Row("string", Address(8082), "VM_TTS_PORT", "ttsd")
 @@ "tts.healthURL" :> Row("string", URL("/healthz", 8082), "VM_TTS_HEALTH_URL", "controller")
 @@ "tts.cacheDirectory" :>
        [Row("string", Setting("${data}", 0, "tts"), "VM_TTS_CACHE_DIR", "ttsd") EXCEPT !.data = TRUE]
 @@ "mail.smarthost.host" :>
        [Row("string", Blank, "VM_MAIL_SMARTHOST", "mail") EXCEPT !.blank = TRUE]
 @@ "mail.smarthost.username" :>
        [Row("string", Blank, "VM_MAIL_SMARTHOST_USER", "mail") EXCEPT !.blank = TRUE]
 @@ "mail.smarthost.password" :>
        [Row("string", Blank, "VM_MAIL_SMARTHOST_PASS", "mail") EXCEPT !.blank = TRUE, !.secret = TRUE]
 @@ "health.llamaURL" :> Row("string", URL("/health", 8081), "VM_LLAMA_HEALTH_URL", "controller")
 @@ "integrations.telegram.enabled" :> Row("boolean", Flag(FALSE), "", "controller")
 @@ "integrations.telegram.botToken" :>
        [Row("string", Blank, "", "controller") EXCEPT !.blank = TRUE, !.secret = TRUE,
                                                       !.when = "integrations.telegram.enabled"]
 @@ "integrations.telegram.allowedChatIds" :> Row("array", Setting("list", 0, ""), "", "controller")

Paths == DOMAIN Settings
Defaults == [p \in Paths |-> Settings[p].default]

\* validateNode, as far as these settings go: the type, and a text that may not be empty.
ValueHolds(row, value) ==
    TypeOf(value) = row.type /\ (row.type = "string" /\ ~row.blank => value # Blank)

\* A setting that is no secret and a whole reference is validated as its default.
Deferred(row, value) ==
    IF value.form = "${env}" /\ ~row.secret THEN row.default ELSE value

(***************************************************************************)
(* The file over the defaults, and the old variables over both.  The code  *)
(* ranges over a map of settings, so their order is any order.             *)
(***************************************************************************)
OverlayConfig(overlay) == overlay @@ Defaults
MarkSources(overlay) == [p \in Paths |-> IF p \in DOMAIN overlay THEN "yaml" ELSE "default"]

\* The values a text converts to: none when it is malformed.
ConvertString(text, type, legacyBool) ==
    CASE type = "string" -> {text}
      [] type = "integer" -> IF text.form = "digits" THEN {Integer(text.n)} ELSE {}
      [] type = "boolean" ->
            IF text.form \in {"true", "false"} THEN {Flag(text.form = "true")}
            ELSE IF legacyBool /\ text.form = "digits" /\ text.n \in 0 .. 1 THEN {Flag(text.n = 1)}
            ELSE {}
      [] OTHER -> {}

EnvText(env, name) == IF name \in DOMAIN env THEN env[name] ELSE Blank
AbsentOrDefault(overlay, path) ==
    path \in DOMAIN overlay => overlay[path] = Settings[path].default

\* The URLs that follow a port given by a variable.
DerivedURLs(path, port, overlay, env) ==
    LET follows(url, name, to) ==
            IF AbsentOrDefault(overlay, url) /\ EnvText(env, name) = Blank THEN url :> to ELSE <<>>
    IN  CASE path = "llama.address" ->
               follows("llama.chatCompletionsURL", "", URL("/v1/chat/completions", port))
                 @@ follows("health.llamaURL", "VM_LLAMA_HEALTH_URL", URL("/health", port))
          [] path = "tts.address" ->
               follows("tts.healthURL", "VM_TTS_HEALTH_URL", URL("/healthz", port))

PortVariables == {"llama.address", "tts.address"}

\* One setting whose variable is present: its value, and what follows from it.
ApplyVariable(s, path, overlay, env) ==
    LET row == Settings[path]
        text == env[row.env]
        converted == IF path \in PortVariables
                     THEN {Address(p) : p \in IF text.form = "digits" /\ text.n \in 1 .. 65535
                                              THEN {text.n} ELSE {}}
                     ELSE ConvertString(text, row.type, TRUE)
        derived == IF path \in PortVariables THEN DerivedURLs(path, text.n, overlay, env) ELSE <<>>
    IN  IF converted = {} \/ (text = Blank /\ row.type # "string") THEN [s EXCEPT !.ok = FALSE]
        ELSE [s EXCEPT !.effective = (path :> CHOOSE v \in converted : TRUE) @@ derived @@ @,
                       !.sources[path] = "legacy-env"]

ApplyLegacy(raw, overlay, env, order) ==
    FoldLeft(LAMBDA s, path :
                IF s.ok /\ Settings[path].env \in DOMAIN env THEN ApplyVariable(s, path, overlay, env)
                ELSE s,
             [ok |-> TRUE, effective |-> raw, sources |-> MarkSources(overlay)], order)

(***************************************************************************)
(* References.                                                             *)
(***************************************************************************)
\* What a setting that is no secret resolves to: no value when it is refused.
ResolveNonSecret(row, value, env) ==
    CASE row.type = "array" -> IF value.form = "list with reference" THEN {} ELSE {value}
      [] row.type # "array" /\ value.form = "${data}" ->
            IF row.data THEN {Setting("text", 0, value.name)} ELSE {}
      [] row.type # "array" /\ value.form = "${env}" ->
            IF value.name \in DOMAIN env THEN ConvertString(env[value.name], row.type, FALSE) ELSE {}
      [] row.type # "array" /\ value.form \in {"${file}", "${...}"} -> {}
      [] OTHER -> {value}

IsReference(value) == value.form \in {"${env}", "${file}"}

\* What a secret resolves to, and what is said of it.  available is the set of
\* references the resolver can read; the value it reads is a text of its name.
Resolved(value, status) == [value |-> value, status |-> status]
ResolveSecret(path, value, raw, effective, available) ==
    LET row == Settings[path]
        text == IF raw # Blank THEN raw ELSE value
    IN  CASE value = Blank -> {Resolved(Blank, "not configured")}
          [] value # Blank /\ ~IsReference(text) ->
                IF raw = Blank THEN {Resolved(value, "legacy-env")} ELSE {}
          [] value # Blank /\ IsReference(text) ->
                IF row.when # "" /\ effective[row.when] # Flag(TRUE)
                THEN {Resolved(Blank, "inactive")}
                ELSE IF text \in available THEN {Resolved(Setting("text", 0, text.name), "resolved")}
                ELSE IF path = "integrations.telegram.botToken" THEN {Resolved(Blank, "unavailable")}
                ELSE {}

Secrets == {p \in Paths : Settings[p].secret}

(***************************************************************************)
(* What settings ask of each other.                                        *)
(***************************************************************************)
Authority(value) == IF value.form \in URLPaths THEN <<value.n, value.name>> ELSE <<>>
HostPort(value) == IF value.form = "address" THEN <<value.n, value.name>> ELSE <<-1, value.form>>
Loopback(value) == value.form = "address" /\ value.n \in 1 .. 65535

Authorities ==
    {<<"server.desktopProxyURL", "desktop.noVNCAddress">>,
     <<"llama.chatCompletionsURL", "llama.address">>, <<"health.llamaURL", "llama.address">>,
     <<"tts.healthURL", "tts.address">>}
URLRoles ==
    {<<"server.desktopProxyURL", "/">>, <<"desktop.cdpURL", "/">>,
     <<"llama.chatCompletionsURL", "/v1/chat/completions">>, <<"tts.healthURL", "/healthz">>,
     <<"health.llamaURL", "/health">>}
PortOwners == <<"server.httpAddress", "desktop.vncAddress", "desktop.noVNCAddress",
                "desktop.cdpURL", "valkey.address", "llama.address", "tts.address">>

\* The ports that are spelled out, each with the first setting that claims it.
PortText(value) == IF value.form = "address" THEN HostPort(value)
                   ELSE IF value.n # 0 THEN Authority(value) ELSE <<>>
Collisions(c) ==
    FoldLeft(LAMBDA s, path :
                LET port == PortText(c[path])
                IN  CASE port = <<>> -> s
                      [] port # <<>> /\ port \in s.owned -> [s EXCEPT !.again = @ \union {path}]
                      [] OTHER -> [s EXCEPT !.owned = @ \union {port}],
             [owned |-> {}, again |-> {}], PortOwners).again

ValidateSemantic(c) ==
    /\ c["desktop.noVNCUpstreamAddress"] = c["desktop.vncAddress"]
    /\ \A pair \in Authorities : Authority(c[pair[1]]) = HostPort(c[pair[2]])
    /\ \A p \in {"desktop.vncAddress", "desktop.noVNCAddress", "desktop.noVNCUpstreamAddress",
                 "valkey.address", "llama.address", "tts.address", "server.httpAddress"} :
          Loopback(c[p])
    /\ \A role \in URLRoles : c[role[1]].form = role[2]
    /\ Collisions(c) = {}
    /\ LET user == c["mail.smarthost.username"]
           password == c["mail.smarthost.password"]
       IN  /\ user = Blank <=> password = Blank
           /\ user # Blank => c["mail.smarthost.host"] # Blank

(***************************************************************************)
(* Load, and ValidateRaw, which a save runs over the whole new tree.       *)
(***************************************************************************)
Schema == INSTANCE ConfigSchema

\* What Validate adds for Telegram, on the flag and the chats it sees and the saved token.
TelegramHolds(enabled, token, chats) ==
    Schema!TelegramIssues(enabled = Flag(TRUE),
                          IF token = Blank THEN "none"
                          ELSE IF IsReference(token) THEN "reference" ELSE "literal",
                          chats.n) = <<>>

\* Validate over a tree of values, token being the saved one.
Validate(value, token) ==
    /\ \A p \in DOMAIN value : ValueHolds(Settings[p], value[p])
    /\ TelegramHolds(value["integrations.telegram.enabled"], token,
                     value["integrations.telegram.allowedChatIds"])

NotLoaded == [ok |-> FALSE]

Resolve(raw, overlay, env, order, available) ==
    LET legacy == ApplyLegacy(raw, overlay, env, order)
        plain == [p \in Paths \ Secrets |-> ResolveNonSecret(Settings[p], legacy.effective[p], env)]
        found == [p \in Paths \ Secrets |-> CHOOSE v \in plain[p] : TRUE] @@ legacy.effective
        secret == [p \in Secrets |-> ResolveSecret(p, legacy.effective[p], raw[p], found, available)]
        outcome == [p \in Secrets |-> CHOOSE o \in secret[p] : TRUE]
        effective == [p \in Secrets |-> outcome[p].value] @@ found
        token == raw["integrations.telegram.botToken"]
    IN  IF \/ ~Validate([p \in Paths |-> Deferred(Settings[p], raw[p])], token)
           \/ ~legacy.ok
           \/ \E p \in DOMAIN plain : plain[p] = {}
           \/ \E p \in Secrets : secret[p] = {}
           \/ ~Validate([p \in Paths \ Secrets |-> effective[p]], token)
           \/ ~ValidateSemantic(effective)
        THEN NotLoaded
        ELSE [ok |-> TRUE, effective |-> effective, raw |-> raw, sources |-> legacy.sources,
              secrets |-> [p \in Secrets |-> outcome[p].status]]

Load(file, env, order, available) == Resolve(OverlayConfig(file), file, env, order, available)
ValidateRaw(raw, env, order, available) == Resolve(raw, raw, env, order, available)

(***************************************************************************)
(* What a changed configuration restarts.                                  *)
(***************************************************************************)
ChangedKeys(old, new) == {p \in Paths : old[p] # new[p]}

ServicesOf(class) == IF class = "desktop"
                     THEN <<"xvfb", "openbox", "x11vnc", "novnc", "chromium", "chromium-watchdog">>
                     ELSE <<class>>

RestartServices(classes) ==
    LET all == IF "all" \in classes THEN {"desktop", "valkey", "llama", "ttsd", "mail"} ELSE {}
        restarted == SelectSeq(<<"desktop", "valkey", "llama", "ttsd", "mail">>,
                               LAMBDA c : c \in classes \union all)
    IN  FlattenSeq([i \in DOMAIN restarted |-> ServicesOf(restarted[i])])
        \o (IF classes = {} THEN <<>> ELSE <<"controller">>)
=============================================================================
