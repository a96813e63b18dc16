------------------------------ MODULE Excerpt ------------------------------
(***************************************************************************)
(* utf8_prefix_len and excerpt of app.rs: what is kept of a text that is   *)
(* longer than its budget.                                                 *)
(*                                                                         *)
(* A text is its length in bytes and its cuts, the offsets between two     *)
(* characters; what the characters are does not matter.  An excerpt keeps  *)
(* the bytes before `head` and those from `tail` on, with the truncation   *)
(* marker between them if `marked`.                                        *)
(***************************************************************************)
EXTENDS Integers

Texts ==
    {t \in [len : Nat, cuts : SUBSET Nat] :
        /\ {0, t.len} \subseteq t.cuts
        /\ t.cuts \subseteq 0..t.len}

\* The last cut at or before maxBytes.
Utf8PrefixLen(text, maxBytes) ==
    CHOOSE c \in text.cuts :
        /\ c <= maxBytes
        /\ \A d \in text.cuts : d <= maxBytes => d <= c

\* The first cut at or after offset.
TailStart(text, offset) ==
    CHOOSE c \in text.cuts :
        /\ c >= offset
        /\ \A d \in text.cuts : d >= offset => d >= c

Beginning(text, maxBytes) ==
    [head |-> Utf8PrefixLen(text, maxBytes), tail |-> text.len,
     marked |-> FALSE]

\* Mutant: the marker is not paid for out of the budget.
EndsBesideMarker(text, maxBytes, marker) ==
    LET headLimit == (maxBytes * 2) \div 3 IN
    [head |-> Utf8PrefixLen(text, headLimit),
     tail |-> TailStart(text, text.len - (maxBytes - headLimit)),
     marked |-> TRUE]

\* Two thirds of what the marker leaves for the beginning, the rest for the end.
Ends(text, maxBytes, marker) ==
    LET content == maxBytes - marker
        headLimit == (content * 2) \div 3
    IN
    [head |-> Utf8PrefixLen(text, headLimit),
     tail |-> TailStart(text, text.len - (content - headLimit)),
     marked |-> TRUE]

\* Mutant: the ends are kept whatever little room the marker leaves.
KeepWithoutReserve(text, maxBytes, marker) ==
    IF text.len <= maxBytes THEN Beginning(text, maxBytes)
    ELSE IF maxBytes <= marker THEN Beginning(text, maxBytes)
    ELSE Ends(text, maxBytes, marker)

Keep(text, maxBytes, marker) ==
    IF text.len <= maxBytes THEN Beginning(text, maxBytes)
    ELSE IF maxBytes <= marker + 8 THEN Beginning(text, maxBytes)
    ELSE Ends(text, maxBytes, marker)

Truncated(text, maxBytes) == text.len > maxBytes

\* The bytes of an excerpt.
Size(text, kept, marker) ==
    kept.head + (IF kept.marked THEN marker ELSE 0) + (text.len - kept.tail)
-----------------------------------------------------------------------------
\* An excerpt is never longer than its budget, keeps whole characters only,
\* shows no byte twice, and is the whole text if that fits.
Fits(text, maxBytes, marker) ==
    LET kept == Keep(text, maxBytes, marker) IN
    /\ Size(text, kept, marker) <= maxBytes
    /\ {kept.head, kept.tail} \subseteq text.cuts
    /\ kept.head <= kept.tail
    /\ ~Truncated(text, maxBytes) => kept.head = text.len

\* No character is longer than four bytes.
IsUtf8(text) ==
    \A c \in text.cuts :
        c < text.len => \E d \in text.cuts : d \in (c + 1)..(c + 4)

ShortLastChar(text) ==
    \E c \in text.cuts : c \in (text.len - 3)..(text.len - 1)

\* docs/large-change-context.md:7, "Oversized textual diffs retain both their
\* beginning and end": where there is room for the marker, unless the last
\* character alone is longer than the least room for the end, three bytes.
KeepsBothEnds(text, maxBytes, marker) ==
    LET kept == Keep(text, maxBytes, marker) IN
    (kept.marked /\ IsUtf8(text) /\ ShortLastChar(text)) =>
        kept.head > 0 /\ kept.tail < text.len
=============================================================================
