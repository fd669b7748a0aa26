------------------------------- MODULE Config -------------------------------
(***************************************************************************)
(* The configuration: what main.rs makes of a file that has been parsed,   *)
(* without any state of its own.                                           *)
(*                                                                         *)
(* A configuration is a record of proxies and profiles, both sequences,    *)
(* the drain time shutdown_drain_secs, and whether capture_log is set.  A  *)
(* format or a direction is spelled by a word, with or without capitals.   *)
(***************************************************************************)
EXTENDS Integers, Sequences, FiniteSetsExt, Functions

CONSTANTS
    None,       \* an Option that is not there
    SocketsOf   \* per listen text, the ports on interfaces it names: none
                \* when the text is no socket address, several for a wildcard

----------------------------------------------------------------------------
(* Spelling.                                                               *)

Spellings == [word : STRING, capitals : BOOLEAN]

to_ascii_lowercase(text) == [text EXCEPT !.capitals = FALSE]

\* The names OutputFormat::parse and resolve_output know, in small letters.
Formats ==
    [hexdump |-> "Hexdump", hex |-> "Hexdump", json |-> "Json",
     raw |-> "Raw", text |-> "Raw", base64 |-> "Base64",
     compact |-> "Compact", summary |-> "Compact"]
Directions == [inbound |-> "Inbound", outbound |-> "Outbound"]

Known(names, text) == ~text.capitals /\ text.word \in DOMAIN names

\* OutputFormat::parse: None for a name it does not know.
ParseFormat(text) ==
    IF Known(Formats, to_ascii_lowercase(text)) THEN Formats[text.word] ELSE None

\* Mutant: the direction is compared as it is written.
DirectionAsWritten(text) ==
    IF Known(Directions, text) THEN Directions[text.word] ELSE None

DirectionOf(text) ==
    IF Known(Directions, to_ascii_lowercase(text))
    THEN Directions[text.word] ELSE None

----------------------------------------------------------------------------
(* validate                                                                *)

Enabled(config) == {i \in DOMAIN config.proxies : config.proxies[i].enabled}

\* Two enabled pipelines never have the same listen text.
ListensDiffer(config) ==
    \A i, j \in Enabled(config) :
        config.proxies[i].listen = config.proxies[j].listen => i = j

ListensParse(config) ==
    \A i \in Enabled(config) : SocketsOf[config.proxies[i].listen] # {}

OutputsExist(config) ==
    \A i \in Enabled(config) :
        config.proxies[i].output \in
            {None} \union {profile.name : profile \in Range(config.profiles)}

\* Of every profile, whether or not a pipeline uses it.
FormatsKnown(config) ==
    \A profile \in Range(config.profiles) : ParseFormat(profile.format) # None

DirectionsKnown(config) ==
    \A profile \in Range(config.profiles) :
        profile.direction # None =>
            Known(Directions, to_ascii_lowercase(profile.direction))

validate(config) ==
    /\ ListensDiffer(config)
    /\ ListensParse(config)
    /\ OutputsExist(config)
    /\ FormatsKnown(config)
    /\ DirectionsKnown(config)

----------------------------------------------------------------------------
(* resolve_output                                                          *)

Named(config, name) ==
    {k \in DOMAIN config.profiles : config.profiles[k].name = name}

\* What a pipeline is started with: OutputSpec's default when it names no
\* profile, and otherwise the first profile of that name.
resolve_output(proxy, config, capture) ==
    LET named == Named(config, proxy.output)
        profile == config.profiles[Min(named)]
        format == ParseFormat(profile.format)
    IN  [enabled |-> proxy.log_payloads,
         format |-> IF named = {} \/ format = None THEN "Hexdump" ELSE format,
         direction |-> IF named = {} \/ profile.direction = None
                       THEN None ELSE DirectionOf(profile.direction),
         capture |-> capture]

----------------------------------------------------------------------------
(* --admin                                                                 *)

\* The one action among the flags given, or None: several, or no flag at all.
resolve_admin_action(flags) ==
    IF \E action \in flags : flags = {action}
    THEN CHOOSE action \in flags : TRUE ELSE None
=============================================================================
