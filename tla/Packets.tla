------------------------------ MODULE Packets -------------------------------
(***************************************************************************)
(* What log_chunk does to the bytes of a packet: the filter, the redactor, *)
(* the highlighter and the renderers of wf-packet, over the chunks into    *)
(* which the reads of one direction cut a stream.  Logging has             *)
(* the same steps with their sharing and their faults, for patterns of one *)
(* letter; here patterns have any length, overlap, and lie across cuts.    *)
(*                                                                         *)
(* A byte is a letter, a control character, or one that is not UTF-8.  A   *)
(* text may also hold colour codes, of an escape character and the rest of *)
(* the code.  A rendering has a text and, in the formats that write every  *)
(* byte out as digits, the bytes that can be read back from those.  The    *)
(* direction, the length, the quotes and the rows that a renderer puts     *)
(* around them are left out, and so are the colours of JSON's own syntax.  *)
(***************************************************************************)
EXTENDS Integers, SequencesExt, Selection

CONSTANTS
    Streams,     \* what may be sent: a direction and bytes
    Profiles,    \* the output profiles
    BufferLen,   \* the length of a forwarding loop's buffer, 4096 in the code
    PreviewLen   \* COMPACT_PREVIEW_LEN, 60 in the code

Escape == "ESC"
Controls == {"LF", Escape}
NotUtf8 == "FF"
Star == "*"
Letters == {"a", "b", "c", Star}
Bytes == Letters \union Controls \union {NotUtf8}

Red == "red"
Plain == "plain"
Codes == {Red, Plain}
\* What stands for bytes that are not UTF-8, for a control character and for
\* what was cut off.
Replacement == "?"
Dot == "."
Ellipsis == "..."
Text == (Bytes \ {NotUtf8}) \union Codes \union {Replacement, Dot, Ellipsis}

Formats == {"raw", "compact", "hexdump", "base64", "json"}
\* What a renderer makes of a packet.
Renderings == [text : Seq(Text), digits : Seq(Bytes)]
Nothing == [text |-> <<>>, digits |-> <<>>]

Directions == {"in", "out"}
AnyDirection == "any"

\* A contains that is absent and one that is empty are both empty here.
ASSUME PacketsAssumption ==
    /\ Streams \subseteq [direction : Directions, bytes : Seq(Bytes)]
    /\ Profiles \subseteq
          [min_bytes : Nat, direction : Directions \union {AnyDirection}, contains : Seq(Letters),
           redact : Seq(Seq(Letters)), highlight : Seq(Seq(Letters)),
           format : Formats, color : BOOLEAN]
    /\ BufferLen \in Nat \ {0}
    /\ PreviewLen \in Nat

VARIABLES
    at,        \* where log_chunk is, or "read" between two chunks
    profile,   \* the pipeline's OutputSpec
    stream,    \* the direction, and the bytes that are not read yet
    chunk,     \* the buffer: what the last read has read
    packet,    \* the packet's bytes
    turn,      \* the next of the redactor's patterns
    printed,   \* the last rendering on standard output
    captured   \* the last rendering in the capture log

vars == <<at, profile, stream, chunk, packet, turn, printed, captured>>

\* Redactor::new, and resolve_output for highlight, leave out empty patterns.
Patterns(list) == Kept(list, Seq(Letters) \ {<<>>})
Secrets == Patterns(profile.redact)

TypeOK ==
    /\ at \in {"read", "filter", "redact", "capture"}
    /\ profile \in Profiles
    /\ stream \in [direction : Directions, bytes : Seq(Bytes)]
    /\ chunk \in Seq(Bytes) /\ Len(chunk) <= BufferLen
    /\ packet \in Seq(Bytes) /\ Len(packet) = Len(chunk)
    /\ turn \in 1 .. Len(Secrets) + 1
    /\ printed \in Renderings
    /\ captured \in Renderings

Init ==
    /\ at = "read"
    /\ profile \in Profiles
    /\ stream \in Streams
    /\ chunk = <<>>
    /\ packet = <<>>
    /\ turn = 1
    /\ printed = Nothing
    /\ captured = Nothing

----------------------------------------------------------------------------
(* The filter and the redactor.                                            *)

\* Whether p begins at place i of the bytes.
Begins(bytes, i, p) ==
    i + Len(p) - 1 <= Len(bytes) /\ SubSeq(bytes, i, i + Len(p) - 1) = p

contains_bytes(bytes, p) == p = <<>> \/ \E i \in DOMAIN bytes : Begins(bytes, i, p)

Matches(bytes) ==
    /\ Len(bytes) >= profile.min_bytes
    /\ profile.direction \in {AnyDirection, stream.direction}
    /\ contains_bytes(bytes, profile.contains)

\* Mutant: the scan ends one place too early.
StopsShort(bytes, p) ==
    LET from[i \in DOMAIN bytes \union {Len(bytes) + 1}] ==
            IF i + Len(p) > Len(bytes) THEN {}
            ELSE IF Begins(bytes, i, p) THEN {i} \union from[i + Len(p)] ELSE from[i + 1]
    IN from[1]

\* The places of the matches that the scan for p overwrites: after a match it
\* goes on behind it, so that it does not see what it has overwritten.
Hits(bytes, p) ==
    LET from[i \in DOMAIN bytes \union {Len(bytes) + 1}] ==
            IF i + Len(p) - 1 > Len(bytes) THEN {}
            ELSE IF Begins(bytes, i, p) THEN {i} \union from[i + Len(p)] ELSE from[i + 1]
    IN from[1]

Masked(bytes, p) ==
    LET hits == Hits(bytes, p)
    IN [k \in DOMAIN bytes |-> IF \E i \in hits : k \in i .. i + Len(p) - 1 THEN Star ELSE bytes[k]]

----------------------------------------------------------------------------
(* apply_highlight and the renderers.                                      *)

Mark(p) == <<Escape, Red>> \o p \o <<Escape, Plain>>

\* Mutant: after a match, the scan goes on inside it.
OneByOne(bytes, patterns) ==
    LET from[i \in DOMAIN bytes \union {Len(bytes) + 1}] ==
            LET hits == {k \in DOMAIN patterns : Begins(bytes, i, patterns[k])}
            IN IF i > Len(bytes) THEN <<>>
               ELSE IF hits = {} THEN <<bytes[i]>> \o from[i + 1]
               ELSE Mark(patterns[Min(hits)]) \o from[i + 1]
    IN from[1]

\* From left to right; of the patterns that begin at a place the first in the
\* list is taken.
Highlighted(bytes, patterns) ==
    LET from[i \in DOMAIN bytes \union {Len(bytes) + 1}] ==
            LET hits == {k \in DOMAIN patterns : Begins(bytes, i, patterns[k])}
                p == patterns[Min(hits)]
            IN IF i > Len(bytes) THEN <<>>
               ELSE IF hits = {} THEN <<bytes[i]>> \o from[i + 1]
               ELSE Mark(p) \o from[i + Len(p)]
    IN from[1]

\* Mutant: bytes that are not UTF-8 are passed on.
PassedOn(text) == text

\* String::from_utf8_lossy.
from_utf8_lossy(text) ==
    [k \in DOMAIN text |-> IF text[k] = NotUtf8 THEN Replacement ELSE text[k]]

Written(text, digits) == [text |-> text, digits |-> digits]

\* Only these two are given text with colour codes in it.
render_raw(text) == Written(from_utf8_lossy(text), <<>>)

\* Control characters become dots, that of a colour code too, before the text
\* is cut.
render_compact(text) ==
    LET lossy == from_utf8_lossy(text)
        line == [k \in DOMAIN text |-> IF lossy[k] \in Controls THEN Dot ELSE lossy[k]]
    IN Written(IF Len(line) > PreviewLen
               THEN SubSeq(line, 1, PreviewLen) \o <<Ellipsis>> ELSE line, <<>>)

\* What does not print is a dot in the column beside the digits.
render_hexdump(bytes) ==
    Written([k \in DOMAIN bytes |->
                IF bytes[k] \in Controls \union {NotUtf8} THEN Dot ELSE bytes[k]], bytes)

render_base64(bytes) == Written(<<>>, bytes)

render_json(bytes) == Written(from_utf8_lossy(bytes), bytes)

render(bytes, color) ==
    LET text == IF color THEN Highlighted(bytes, Patterns(profile.highlight)) ELSE bytes
    IN CASE profile.format = "raw" -> render_raw(text)
         [] profile.format = "compact" -> render_compact(text)
         [] profile.format = "hexdump" -> render_hexdump(bytes)
         [] profile.format = "base64" -> render_base64(bytes)
         [] profile.format = "json" -> render_json(bytes)

----------------------------------------------------------------------------
(* A forwarding loop, and log_chunk.                                       *)

Read ==
    /\ at = "read"
    /\ stream.bytes # <<>>
    /\ \E n \in 1 .. BufferLen :
          /\ n <= Len(stream.bytes)
          /\ chunk' = SubSeq(stream.bytes, 1, n)
          /\ stream' = [stream EXCEPT !.bytes = SubSeq(@, n + 1, Len(@))]
    /\ packet' = chunk'
    /\ at' = "filter"
    /\ UNCHANGED <<profile, turn, printed, captured>>

Discard ==
    /\ at = "filter" /\ ~Matches(packet)
    /\ at' = "read"
    /\ UNCHANGED <<profile, stream, chunk, packet, turn, printed, captured>>

Keep ==
    /\ at = "filter" /\ Matches(packet)
    /\ at' = "redact"
    /\ turn' = 1
    /\ UNCHANGED <<profile, stream, chunk, packet, printed, captured>>

\* One pattern of Redactor::apply.
Redact ==
    /\ at = "redact" /\ turn <= Len(Secrets)
    /\ packet' = Masked(packet, Secrets[turn])
    /\ turn' = turn + 1
    /\ UNCHANGED <<at, profile, stream, chunk, printed, captured>>

PrintPacket ==
    /\ at = "redact" /\ turn > Len(Secrets)
    /\ printed' = render(packet, profile.color)
    /\ at' = "capture"
    /\ UNCHANGED <<profile, stream, chunk, packet, turn, captured>>

\* Mutant: the log gets what was printed.
AsPrinted == printed

\* A text with colours is rendered again without them.
WithoutColor == IF profile.color THEN render(packet, FALSE) ELSE printed

Capture ==
    /\ at = "capture"
    /\ captured' = WithoutColor
    /\ at' = "read"
    /\ UNCHANGED <<profile, stream, chunk, packet, turn, printed>>

Next == Read \/ Discard \/ Keep \/ Redact \/ PrintPacket \/ Capture

Spec == Init /\ [][Next]_vars

----------------------------------------------------------------------------
(* Properties.                                                             *)

\* Where the text is no colour code, and not what begins one: Escape begins a
\* code if one follows.
Places(text) ==
    LET coded == {k \in DOMAIN text : text[k] \in Codes}
    IN DOMAIN text \ (coded \union {k - 1 : k \in coded})

\* The text without its colour codes.
Uncoloured(text) ==
    LET places == Kept([k \in DOMAIN text |-> k], Places(text))
    IN [k \in DOMAIN places |-> text[places[k]]]

\* What the colour code red is put around, with the codes.
Marked(text) ==
    LET end(k) == Min({j \in DOMAIN text : j > k /\ text[j] = Plain})
    IN {SubSeq(text, k - 1, end(k)) : k \in {j \in DOMAIN text : text[j] = Red}}

\* Of a packet that is printed, no secret is left, in the text or in the
\* digits, whatever patterns overlap it or stand before it in the list; only
\* bytes that are part of a secret are masked; and the colours do not bring a
\* secret back (redact.rs:33-49, src/main.rs:201-208).  A pattern with a star
\* in it may match what another one has masked, and is left out.
RedactsSecretsOnly ==
    LET secrets == {p \in ToSet(Secrets) : Star \notin ToSet(p)}
        InSecret(k) == \E p \in secrets : \E i \in DOMAIN chunk :
                          Begins(chunk, i, p) /\ k \in i .. i + Len(p) - 1
    IN at = "capture" /\ secrets = ToSet(Secrets) =>
          /\ \A p \in secrets :
                /\ ~contains_bytes(Uncoloured(printed.text), p)
                /\ ~contains_bytes(printed.digits, p)
          /\ \A k \in DOMAIN packet : packet[k] # chunk[k] => packet[k] = Star /\ InSecret(k)

\* In a raw text with colours each mark is around one whole pattern, no
\* pattern is left between two marks, and the codes are all that is added;
\* in every other format but compact, and in the capture log whatever the
\* terminal's profile, there is no code at all that could corrupt it
\* (format.rs:93-124, lib.rs:290-310).
HighlightMarksPatterns ==
    LET patterns == ToSet(Patterns(profile.highlight))
        text == printed.text
        InMark(i) == \E j \in DOMAIN text :
                        j < i /\ text[j] = Red /\ \A k \in j .. i : text[k] # Plain
    IN /\ at = "capture" /\ profile.format = "raw" /\ profile.color =>
            /\ Marked(text) \subseteq {Mark(p) : p \in patterns}
            /\ \A p \in patterns : \A i \in DOMAIN text :
                  Begins(text, i, p) => InMark(i)
            /\ Uncoloured(text) = from_utf8_lossy(packet)
       /\ profile.format \notin {"raw", "compact"} => ToSet(text) \intersect Codes = {}
       /\ ToSet(captured.text) \intersect Codes = {}

\* A highlighted pattern at the beginning of a packet is coloured in the
\* compact format too (README.md:94).
CompactIsHighlighted ==
    at = "capture" /\ profile.format = "compact" /\ profile.color =>
        \A p \in ToSet(Patterns(profile.highlight)) :
            Begins(packet, 1, p) => Begins(printed.text, 1, <<Escape, Red>>)
=============================================================================
