---------------------------- MODULE ConfigManager ----------------------------
(***************************************************************************)
(* ConfigManager keeps its settings in config_, a flat map from dotted     *)
(* keys to texts, and its file as a nested JSON document: flattenJson and  *)
(* unflattenMap convert between the two.  unflattenMap inserts the keys in *)
(* the order of an unordered_map, which is unspecified.                    *)
(*                                                                         *)
(* A key is the sequence of its parts, none of them empty, the empty key   *)
(* <<>>.  A document is a function from the paths of its leaves to the     *)
(* leaves; the leaf "obj" is an empty object.  A text is known by what     *)
(* json::parse makes of it: "word" is no JSON, "quoted" is the JSON string *)
(* of that word, "object" is the text of an object {"b": 5}; "num",        *)
(* "null", "arr" and "obj" parse to leaves of their names.  The JSON       *)
(* string "digits" has the text "num".                                     *)
(*                                                                         *)
(* Every operation but save() and getJson() holds mutex_, so each is one   *)
(* action.                                                                 *)
(***************************************************************************)
EXTENDS Integers, Sequences, SequencesExt

CONSTANTS
    Keys,    \* the keys given to set and remove
    Inputs,  \* the values given to set: texts, or "literal"
    Docs,    \* the documents given to loadFromJson
    Nested,  \* the <<path, document>> pairs given to setNested<json>
    Faults   \* the file can fail to open, and be left cut short

VARIABLES
    config,    \* config_
    file,      \* the file: [kind |-> "absent", "torn" or "json", doc |-> its document]
    autoSave,  \* autoSave_
    outcome,   \* how the last operation ended: "ok", "threw" or "undefined"
    saved      \* history: config has not changed since a save() that returned

vars == <<config, file, autoSave, outcome, saved>>
-----------------------------------------------------------------------------
(* Documents.                                                              *)

None == [p \in {} |-> "obj"]

\* f, and g where f has nothing.
Over(f, g) == [x \in DOMAIN f \cup DOMAIN g |-> IF x \in DOMAIN f THEN f[x] ELSE g[x]]

\* The document json(null): a json that was default constructed.
Null == [p \in {<<>>} |-> "null"]

\* json::parse(text), or the text itself as a JSON string.
Parsed(t) ==
    CASE t = "quoted" -> [p \in {<<>>} |-> "word"]
      [] t = "object" -> [p \in {<<"b">>} |-> "num"]
      [] OTHER -> [p \in {<<>>} |-> t]

\* toString(value): the text that is stored.  A std::string is its own text.
\* Everything else goes through json: numbers, arrays and the like have one
\* text both ways, but a string literal is an array of char, neither
\* std::string nor const char*, and is stored with its quotes.
Stored(value) == IF value = "literal" THEN "quoted" ELSE value

\* The text flattenJson stores for a leaf.
TextOf(leaf) == IF leaf = "digits" THEN "num" ELSE leaf

\* The document with path in front of all its leaves.
Under(path, doc) ==
    [p \in {path \o q : q \in DOMAIN doc} |-> doc[SubSeq(p, Len(path) + 1, Len(p))]]

\* flattenJson(prefix, doc, output)
Flatten(prefix, doc) ==
    LET all == Under(prefix, doc)
    IN  [k \in {p \in DOMAIN all : all[p] # "obj"} |-> TextOf(all[k])]

\* A scalar lies on the way to k: indexing it by a name throws.
Blocked(doc, k) == \E p \in DOMAIN doc : IsStrictPrefix(p, k) /\ doc[p] \notin {"null", "obj"}

\* A variant with a plausible slip: the objects on the way to k are made anew
\* without looking whether they are there.
LosesSiblings(doc, k) == {p \in DOMAIN doc : ~IsPrefix(p, k) /\ ~IsPrefix(SubSeq(k, 1, 1), p)}

\* The leaves that stay when k is assigned: a null or an empty object on the
\* way becomes an object with members, a value at k or below is replaced.
Kept(doc, k) == {p \in DOMAIN doc : ~IsPrefix(p, k) /\ ~IsPrefix(k, p)}

\* One round of unflattenMap's loop.  The empty key has no part to start
\* from: parts.size() - 1 wraps around and parts.back() is undefined.
Insert(c, u, k) ==
    IF u.end # "ok" THEN u
    ELSE IF k = <<>> THEN [end |-> "undefined", doc |-> Null]
    ELSE IF Blocked(u.doc, k) THEN [end |-> "threw", doc |-> Null]
    ELSE [end |-> "ok",
          doc |-> Over([p \in Kept(u.doc, k) |-> u.doc[p]], Under(k, Parsed(c[k])))]

\* unflattenMap(c) when the map is walked in the given order, after each round.
UnflattenUpTo(c, order) ==
    LET upTo[i \in 0..Len(order)] ==
          IF i = 0 THEN [end |-> "ok", doc |-> Null] ELSE Insert(c, upTo[i - 1], order[i])
    IN  upTo
Unflatten(c, order) == UnflattenUpTo(c, order)[Len(order)]

Orders(c) == SetToSeqs(DOMAIN c)
-----------------------------------------------------------------------------
(* What the operations on a path look for.                                 *)

\* hasNestedPath
HasNestedPath(c, path) == \E k \in DOMAIN c : IsPrefix(path, k)

\* toRemove of setNested and removeNested: the key and all below it.
AtOrBelow(c, path) == {k \in DOMAIN c : IsPrefix(path, k)}
-----------------------------------------------------------------------------
Init ==
    /\ config = None /\ file = [kind |-> "absent", doc |-> None]
    /\ autoSave = FALSE /\ outcome = "ok" /\ saved = FALSE

Alive == outcome # "undefined"

\* save() of the settings c: driver_->put throws when the file cannot be
\* opened, and does not look whether the content was written.
SaveOf(c) ==
    \E order \in Orders(c) :
        LET u == Unflatten(c, order)
        IN  \/ /\ u.end = "ok"
               /\ file' = [kind |-> "json", doc |-> u.doc]
               /\ outcome' = "ok" /\ saved' = TRUE
            \/ /\ u.end = "ok" /\ Faults
               /\ file' = [kind |-> "torn", doc |-> None]
               /\ outcome' = "ok" /\ saved' = TRUE
            \/ /\ u.end = "ok" /\ Faults
               /\ outcome' = "threw" /\ saved' = FALSE /\ UNCHANGED file
            \/ /\ u.end # "ok"
               /\ outcome' = u.end /\ saved' = FALSE /\ UNCHANGED file

\* The end of every operation that changes the settings to c.
Changed(c) ==
    /\ config' = c
    /\ IF autoSave THEN SaveOf(c)
       ELSE outcome' = "ok" /\ saved' = FALSE /\ UNCHANGED file
    /\ UNCHANGED autoSave

\* An operation that finds nothing to do.
NoChange == outcome' = "ok" /\ UNCHANGED <<config, file, autoSave, saved>>

Without(c, ks) == [k \in DOMAIN c \ ks |-> c[k]]

\* set, and setNested of anything but a json.
Set(k, value) == Alive /\ Changed(Over([p \in {k} |-> Stored(value)], config))

\* setNested<json>: the old value and everything below it go first.
SetNested(path, doc) ==
    Alive /\ Changed(Over(Flatten(path, doc), Without(config, AtOrBelow(config, path))))

LoadFromJson(doc) == Alive /\ Changed(Flatten(<<>>, doc))

Clear == Alive /\ Changed(None)

RemoveKey(k) ==
    /\ Alive
    /\ IF k \in DOMAIN config THEN Changed(Without(config, {k})) ELSE NoChange

RemoveNested(path) ==
    /\ Alive
    /\ IF HasNestedPath(config, path)
         THEN Changed(Without(config, AtOrBelow(config, path)))
         ELSE NoChange

SetAutoSave(b) ==
    /\ Alive
    /\ autoSave' = b /\ outcome' = "ok"
    /\ UNCHANGED <<config, file, saved>>

Save == Alive /\ SaveOf(config) /\ UNCHANGED <<config, autoSave>>

\* load() into settings that were c: the file is parsed before they are cleared.
LoadInto(c) ==
    /\ config' = CASE file.kind = "absent" -> None
                   [] file.kind = "torn" -> c
                   [] file.kind = "json" -> Flatten(<<>>, file.doc)
    /\ outcome' = IF file.kind = "torn" THEN "threw" ELSE "ok"
    /\ saved' = (saved /\ config' = config)
    /\ UNCHANGED file

Load == Alive /\ LoadInto(config) /\ UNCHANGED autoSave

\* The process ends, at whatever point, and initGlobal runs in a new one.
InitGlobal == LoadInto(None) /\ autoSave' = FALSE

Next ==
    \/ \E k \in Keys : RemoveKey(k) \/ RemoveNested(SubSeq(k, 1, 1)) \/ \E v \in Inputs : Set(k, v)
    \/ \E n \in Nested : SetNested(n[1], n[2])
    \/ \E d \in Docs : LoadFromJson(d)
    \/ \E b \in BOOLEAN : SetAutoSave(b)
    \/ Clear \/ Save \/ Load \/ InitGlobal

Spec == Init /\ [][Next]_vars
-----------------------------------------------------------------------------
(* Properties.                                                             *)

\* The shape of the state.  The file's document is a tree: no leaf lies
\* below another.
TypeOK ==
    /\ \A k \in DOMAIN config : config[k] \in {"word", "num", "null", "arr", "quoted", "object", "obj"}
    /\ file.kind \in {"absent", "torn", "json"}
    /\ \A p, q \in DOMAIN file.doc : IsPrefix(p, q) => p = q
    /\ autoSave \in BOOLEAN /\ saved \in BOOLEAN
    /\ outcome \in {"ok", "threw", "undefined"}

\* No other key of c lies above k or below it.
Alone(c, k) == \A j \in DOMAIN c : IsPrefix(j, k) \/ IsPrefix(k, j) => j = k

\* src/README.md has "Automatic saving of changes" and reload(): after a save()
\* that returned, load() finds under every key that stands alone what
\* json::parse makes of its text, whatever the other keys are and in whatever
\* order unflattenMap walks them, and nothing that is under no key.  A word or
\* a number thus comes back as it was, but a quoted text loses its quotes and
\* the text of an object becomes settings below the key.  Of keys of which one
\* is above another nothing is said: by the order of an unordered map save()
\* throws, or one of them is lost.  Nor of a file cut short, which save() does
\* not notice, or of no settings at all, for which it writes null.
SavedIsReloadable ==
    saved /\ file.kind # "torn" =>
        LET found == Flatten(<<>>, file.doc)
        IN  /\ file.kind = "json"
            /\ \A k \in DOMAIN config : Alone(config, k) =>
                  [p \in AtOrBelow(found, k) |-> found[p]] = Flatten(k, Parsed(config[k]))
            /\ config # None => \A p \in DOMAIN found : \E k \in DOMAIN config : IsPrefix(k, p)

===============================================================================
