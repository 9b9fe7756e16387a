--------------------------- MODULE ShellSurfacesMC ---------------------------
(***************************************************************************)
(* The two sections the surfaces depend on, and files that leave a section *)
(* or an option out, set it, set it to something that is not a Boolean,    *)
(* write a plain value for a section, or cannot be parsed at all.          *)
(***************************************************************************)
EXTENDS ShellSurfaces

MCSection == {"overview", "panel"}
MCKey == {"enabled", "show_user_switcher"}
MCValue == {"true", "false", "other"}

Has(s, k) == <<s, k>> \in {<<"overview", "enabled">>,
                           <<"panel", "show_user_switcher">>}
\* An option the section does not have is ignored, whatever its value.
MCFits ==
    [option \in MCSection \X MCKey |->
        IF Has(option[1], option[2]) THEN {"true", "false"} ELSE MCValue]
MCDefault == [option \in MCSection \X MCKey |-> "true"]

PlainValue == [table |-> FALSE, keys |-> [k \in {} |-> "other"]]
Sections(k) == {PlainValue}
               \cup [table : {TRUE}, keys : Table({k}, MCValue)]

MCFiles ==
    {Unreadable}
    \cup {d \in Table(MCSection, Sections("enabled")
                                 \cup Sections("show_user_switcher")) :
            \A s \in DOMAIN d : \A k \in DOMAIN d[s].keys : Has(s, k)}
=============================================================================
