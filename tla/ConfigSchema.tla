--------------------------- MODULE ConfigSchema ---------------------------
(***************************************************************************)
(* The schema the configuration is validated with, and the checks the      *)
(* schema itself must pass before it is used: config/schema.go.            *)
(*                                                                         *)
(* A datum is [kind, n, entries]: n is the length of a text, twice the     *)
(* value of a number (so halves are the numbers that are not integers), 1  *)
(* or 0 for a boolean; entries are those of an object, by key, or of an    *)
(* array.  Keys are numbers in their alphabetical order.  Texts are told   *)
(* apart by their lengths: patterns, documentation and what the forms need *)
(* to show a setting are left out.                                         *)
(***************************************************************************)
EXTENDS Integers, Sequences, SequencesExt, TLC

Datum(kind, n, entries) == [kind |-> kind, n |-> n, entries |-> entries]
KeysOf(datum) == {datum.entries[i].key : i \in DOMAIN datum.entries}
MemberOf(datum, key) == datum.entries[SelectInSeq(datum.entries, LAMBDA e : e.key = key)].value

(***************************************************************************)
(* A node: its type; the default; the enumerated and the fixed values (the *)
(* empty set: none); the bounds on length or value; for objects the        *)
(* properties and the required keys; for arrays the items (a set of one    *)
(* node) and whether they are unique; for secrets the policy; the restart  *)
(* class, whether it is for display only, the place on the form.  That no  *)
(* environment variable names two settings is left out.                    *)
(***************************************************************************)
TypeHolds(type, datum) ==
    CASE type = "integer" -> datum.kind = "number" /\ datum.n % 2 = 0
      [] OTHER -> datum.kind = type

Issue(path, what) == [path |-> path, what |-> what]
When(wrong, path, what) == IF wrong THEN <<Issue(path, what)>> ELSE <<>>
Sorted(keys) == SetToSortSeq(keys, <)

RECURSIVE ValidateNode(_, _, _)
ValidateNode(node, datum, path) ==
    IF ~TypeHolds(node.type, datum) THEN <<Issue(path, "type")>>
    ELSE LET required == Sorted(node.required \ KeysOf(datum))
             keys == Sorted(KeysOf(datum))
             member(key) ==
                IF key \notin DOMAIN node.properties THEN <<Issue(Append(path, key), "unknown")>>
                ELSE ValidateNode(node.properties[key], MemberOf(datum, key), Append(path, key))
             items == [i \in DOMAIN datum.entries |->
                         ValidateNode(CHOOSE item \in node.items : TRUE,
                                      datum.entries[i].value, Append(path, i))]
             repeats == [i \in DOMAIN datum.entries |->
                           FlattenSeq([j \in 1 .. i - 1 |->
                             When(node.unique /\ datum.entries[i].value = datum.entries[j].value,
                                  Append(path, i), "duplicate")])]
         IN  When(node.const # {} /\ datum \notin node.const, path, "const")
             \o When(node.enum # {} /\ datum \notin node.enum, path, "choice")
             \o When(datum.kind \in {"string", "number"} /\ datum.n < node.low, path, "minimum")
             \o When(datum.kind \in {"string", "number"} /\ datum.n > node.high, path, "maximum")
             \o (IF datum.kind = "object"
                 THEN [i \in DOMAIN required |-> Issue(Append(path, required[i]), "missing")]
                      \o FlattenSeq([i \in DOMAIN keys |-> member(keys[i])])
                 ELSE <<>>)
             \o (IF datum.kind = "array" THEN FlattenSeq(items) \o FlattenSeq(repeats) ELSE <<>>)

(***************************************************************************)
(* Validate adds what the Telegram settings ask of each other and reports  *)
(* at most MaxIssues issues.  The token is "none", a "reference" or a      *)
(* "literal"; it and the flag are read as absent when of another type.     *)
(***************************************************************************)
MaxIssues == 20

TelegramIssues(enabled, token, chats) ==
    When(token = "literal", "botToken", "reference")
    \o When(enabled /\ token = "none", "botToken", "required")
    \o When(enabled /\ chats = 0, "allowedChatIds", "required")

Reported(issues) ==
    IF Len(issues) <= MaxIssues THEN issues
    ELSE Append(SubSeq(issues, 1, MaxIssues), [omitted |-> Len(issues) - MaxIssues])

(***************************************************************************)
(* Defaults.  The default of an object holds what its properties do not.   *)
(***************************************************************************)
RECURSIVE DefaultsFor(_)
DefaultsFor(node) ==
    IF node.type # "object" THEN CHOOSE d \in node.default : TRUE
    ELSE LET base == UNION {{d.entries[i] : i \in DOMAIN d.entries} : d \in node.default}
             kept == {e \in base : e.key \notin DOMAIN node.properties}
             own == {[key |-> k, value |-> DefaultsFor(node.properties[k])]
                        : k \in DOMAIN node.properties}
         IN  Datum("object", 0, SetToSortSeq(kept \union own, LAMBDA a, b : a.key < b.key))

(***************************************************************************)
(* The meta-schema.  node.ref is the definition the node stands for, "" for *)
(* none; a reference has no other keyword.                                 *)
(***************************************************************************)
RECURSIVE NodeAtPath(_, _)
NodeAtPath(node, path) ==
    IF path = <<>> THEN {node}
    ELSE IF Head(path) \in DOMAIN node.properties
         THEN NodeAtPath(node.properties[Head(path)], Tail(path))
         ELSE {}

SecretHolds(root, node, path) ==
    \A secret \in node.secret :
        /\ node.type = "string" /\ secret.ttl \in 0 .. 86400
        /\ \A when \in secret.resolveWhen :
              /\ when # path
              /\ \E target \in NodeAtPath(root, when) : target.type = "boolean"

\* The keywords of an object: it requires exactly its properties, each with a default
\* and, where it has one, a place on the form of its own.
ObjectHolds(node) ==
    /\ node.required = DOMAIN node.properties
    /\ \A k \in DOMAIN node.properties : node.properties[k].default # {}
    /\ \A k, l \in DOMAIN node.properties :
          k # l /\ node.properties[k].order # 0 =>
              node.properties[k].order # node.properties[l].order

\* Paths below a definition start with 0.
RECURSIVE MetaNode(_, _, _, _, _)
MetaNode(root, defs, node, path, refs) ==
    IF node.ref # ""
    THEN /\ node.ref \notin refs /\ node.ref \in DOMAIN defs
         /\ MetaNode(root, defs, defs[node.ref], path, refs \union {node.ref})
    ELSE /\ node.type # "object" => node.restart # ""
         /\ node.restart = "none" => node.readonly
         /\ node.low <= node.high
         /\ \A choice \in node.enum : TypeHolds(node.type, choice)
         /\ SecretHolds(root, node, path)
         /\ node.type = "object" =>
              /\ ObjectHolds(node)
              /\ \A k \in DOMAIN node.properties :
                    MetaNode(root, defs, node.properties[k], Append(path, k), refs)
         /\ node.type = "array" =>
              \E item \in node.items : /\ MetaNode(root, defs, item, path, refs)
                                       /\ item.type = "string"
         /\ node.default # {} => ValidateNode(node, DefaultsFor(node), path) = <<>>

\* edges[s] is the setting the secret s waits for.
\* The walk from one secret along the conditions ends before it meets a setting twice.
RECURSIVE WalkEnds(_, _, _)
WalkEnds(edges, current, seen) ==
    \/ current \notin DOMAIN edges
    \/ current \notin seen /\ WalkEnds(edges, edges[current], seen \union {current})

ValidateSecretConditions(edges) == \A start \in DOMAIN edges : WalkEnds(edges, start, {})

MetaValidate(root, defs) ==
    /\ MetaNode(root, defs, root, <<>>, {})
    /\ \A name \in DOMAIN defs : MetaNode(root, defs, defs[name], <<0>>, {name})
=============================================================================
