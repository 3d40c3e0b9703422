----------------------------- MODULE OutputFilter -----------------------------
(***************************************************************************)
(* OutputFilter of internal/moderation/moderation.go over KeywordPolicy:   *)
(* the deltas of one stream are buffered into segments, each segment is    *)
(* moderated with an overlap of what was already emitted, and only what    *)
(* passes is emitted.                                                      *)
(*                                                                         *)
(* Text is a sequence of characters of one byte each; letter case, which   *)
(* the policy folds, is left out.                                          *)
(***************************************************************************)
EXTENDS Naturals, Sequences, SequencesExt

CONSTANTS
    Letter,        \* characters that are neither terminators nor blanks
    Terminator,    \* sentenceTerminators
    Blank,         \* " " and "\t"
    Banned,        \* KeywordPolicy.banned
    MaxSegment,    \* maxSegmentBytes
    Overlap,       \* overlapRunes
    MaxDelta,      \* bound: characters in one delta
    MaxInput       \* bound: characters in one stream

Char == Letter \cup Terminator \cup Blank

ASSUME FilterConfig ==
    /\ {MaxSegment, Overlap, MaxDelta} \subseteq Nat \ {0}
    /\ MaxInput \in Nat
    /\ Banned \subseteq Seq(Char) \ {<<>>}

VARIABLES
    buf,        \* f.buf
    overlap,    \* f.overlap
    blocked,    \* f.blocked
    input,      \* all that was pushed
    sent,       \* all that was emitted
    flushed     \* Flush was called

filterVars == <<buf, overlap, blocked, input, sent, flushed>>

Text(n) == UNION {[1..k -> Char] : k \in 0..n}

\* The filter's buffer, its overlap of at most Overlap characters (lastRunes) and
\* what it sent are texts over the alphabet.
FilterTypeOK ==
    /\ {buf, overlap, input, sent} \subseteq Text(MaxInput)
    /\ Len(overlap) <= Overlap
    /\ {blocked, flushed} \subseteq BOOLEAN

-----------------------------------------------------------------------------
(* Helpers                                                                 *)

\* strings.Contains
Has(text, w) ==
    \E i \in 0..(Len(text) - Len(w)) : SubSeq(text, i + 1, i + Len(w)) = w

Allowed(text) == \A w \in Banned : ~Has(text, w)

\* 0 when text has no character of set, else the position of the last one:
\* strings.LastIndexAny.
LastOf(text, set) ==
    LET at == {i \in DOMAIN text : text[i] \in set}
    IN  IF at = {} THEN 0 ELSE CHOOSE i \in at : \A j \in at : j <= i

\* Seeded fault: the first runes instead of the last.
firstRunes(s, n) == SubSeq(s, 1, IF Len(s) <= n THEN Len(s) ELSE n)

lastRunes(s, n) == IF Len(s) <= n THEN s ELSE SubSeq(s, Len(s) - n + 1, Len(s))

\* Seeded fault: the blank itself is lost.
splitLosingBlank(text) ==
    LET i == LastOf(text, Blank)
    IN  IF i > 1 /\ i < Len(text)
          THEN <<SubSeq(text, 1, i - 1), SubSeq(text, i + 1, Len(text))>>
          ELSE <<text, <<>>>>

\* <<head, tail>>; without a blank inside, the whole text is taken.
splitKeepingLastToken(text) ==
    LET i == LastOf(text, Blank)
    IN  IF i > 1 /\ i < Len(text)
          THEN <<SubSeq(text, 1, i), SubSeq(text, i + 1, Len(text))>>
          ELSE <<text, <<>>>>

\* Seeded fault: a run without a terminator is never forced out.
CutAtTerminator(text, final) ==
    LET cut == LastOf(text, Terminator)
    IN  IF final THEN <<text, <<>>>>
        ELSE <<SubSeq(text, 1, cut), SubSeq(text, cut + 1, Len(text))>>

\* The segment drain takes from text and the remainder it keeps; an empty
\* segment means it waits for more.
Cut(text, final) ==
    LET cut == LastOf(text, Terminator)
    IN  IF final THEN <<text, <<>>>>
        ELSE IF cut > 0 THEN <<SubSeq(text, 1, cut), SubSeq(text, cut + 1, Len(text))>>
        ELSE IF Len(text) >= MaxSegment THEN splitKeepingLastToken(text)
        ELSE <<<<>>, text>>

-----------------------------------------------------------------------------
(* Push and Flush                                                          *)

FilterInit ==
    /\ buf = <<>> /\ overlap = <<>> /\ blocked = FALSE
    /\ input = <<>> /\ sent = <<>> /\ flushed = FALSE

drain(text, final) ==
    LET segment == Cut(text, final)[1]
    IN  \/ /\ segment = <<>>
           /\ buf' = text
           /\ UNCHANGED <<overlap, blocked, sent>>
        \/ /\ segment # <<>> /\ Allowed(overlap \o segment)
           /\ buf' = Cut(text, final)[2]
           /\ overlap' = lastRunes(overlap \o segment, Overlap)
           /\ sent' = sent \o segment
           /\ UNCHANGED blocked
        \/ /\ segment # <<>> /\ ~Allowed(overlap \o segment)
           /\ blocked' = TRUE
           /\ buf' = <<>>
           /\ overlap' = <<>>
           /\ UNCHANGED sent

Push(delta) ==
    /\ ~flushed
    /\ Len(input) + Len(delta) <= MaxInput
    /\ input' = input \o delta
    /\ \/ blocked /\ UNCHANGED <<buf, overlap, blocked, sent>>
       \/ ~blocked /\ drain(buf \o delta, FALSE)
    /\ UNCHANGED flushed

Flush ==
    /\ ~flushed
    /\ flushed' = TRUE
    /\ \/ blocked /\ UNCHANGED <<buf, overlap, blocked, sent>>
       \/ ~blocked /\ drain(buf, TRUE)
    /\ UNCHANGED input

FilterNext ==
    \/ \E delta \in Text(MaxDelta) \ {<<>>} : Push(delta)
    \/ Flush

FilterSpec == FilterInit /\ [][FilterNext]_filterVars

-----------------------------------------------------------------------------
(* Properties                                                              *)

\* However the reply is cut into deltas, nothing is lost, repeated or reordered:
\* what is emitted and what is held back make up the input, and after a hit what
\* was emitted is a beginning of it.
Conserved ==
    /\ ~blocked => sent \o buf = input
    /\ IsPrefix(sent, input)

\* A banned phrase never reaches the client, even when deltas, terminators or the
\* size cap cut through it, as long as the overlap holds all of it but its last
\* character.
NothingBannedSent ==
    \A w \in Banned : Len(w) <= Overlap + 1 => ~Has(sent, w)

\* The larger of the size cap and a delta: what follows a terminator may be longer
\* than the cap when a delta is.
Cap == IF MaxSegment >= MaxDelta THEN MaxSegment ELSE MaxDelta

\* The buffer is bounded for a reply without terminators: the size cap forces
\* text out, and the partial token it keeps exceeds the cap by less than a delta.
BufferBounded == Len(buf) < Cap + MaxDelta - 1

=============================================================================
