---------------------------- MODULE ConfigLayers ----------------------------
(***************************************************************************)
(* How seatshell-config makes one configuration of the system's file and   *)
(* the user's.  A file is a table of sections, a section is a table of     *)
(* options unless somebody wrote a plain value in its place.  A section    *)
(* written as an array, which serde reads by position, and an option       *)
(* written as a table are left out.                                        *)
(***************************************************************************)
CONSTANTS
    Section, Key, Value,
    Fits,       \* the values an option's type accepts: <<section, key>> -> set
    Default,    \* the option's default: <<section, key>> -> value
    Unreadable  \* the document of a file that cannot be read or parsed

ASSUME ConfigAssumption ==
    /\ Fits \in [Section \X Key -> SUBSET Value]
    /\ \A option \in Section \X Key : Default[option] \in Fits[option]

Table(K, V) == UNION {[ks -> V] : ks \in SUBSET K}

\* The entry of a section: a table, or a plain value, whose content nothing
\* reads.
Entry == [table : {TRUE}, keys : Table(Key, Value)]
         \cup [table : {FALSE}, keys : Table({}, Value)]

\* A missing file counts as one without sections.
Document == Table(Section, Entry)

-----------------------------------------------------------------------------
Over(new, old) ==
    [k \in DOMAIN new \cup DOMAIN old |->
        IF k \in DOMAIN new THEN new[k] ELSE old[k]]

MergedEntry(old, new) ==
    IF old.table /\ new.table
    THEN [table |-> TRUE, keys |-> Over(new.keys, old.keys)]
    ELSE new

\* merge_value, applied to the system's document and the user's.
Merged(old, new) ==
    [s \in DOMAIN old \cup DOMAIN new |->
        IF s \notin DOMAIN new THEN old[s]
        ELSE IF s \notin DOMAIN old THEN new[s]
        ELSE MergedEntry(old[s], new[s])]

\* The merged document deserializes.
Valid(document) ==
    \A s \in DOMAIN document :
        /\ document[s].table
        /\ \A k \in DOMAIN document[s].keys :
              document[s].keys[k] \in Fits[s, k]

\* load_config returns a configuration, and not an error.
Loads(system, user) ==
    /\ Unreadable \notin {system, user}
    /\ Valid(Merged(system, user))

Mentions(document, s, k) ==
    s \in DOMAIN document /\ k \in DOMAIN document[s].keys

\* The option as the deserialized configuration has it.
Setting(document, s, k) ==
    IF Mentions(document, s, k) THEN document[s].keys[k] ELSE Default[s, k]
=============================================================================
