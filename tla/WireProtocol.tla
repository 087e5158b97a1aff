---------------------------- MODULE WireProtocol ----------------------------
(***************************************************************************)
(* The messages peers exchange (src/src/protocol): the build functions and *)
(* parseMessage, and what a file may be called.  A message is the sequence *)
(* of its words, since the parser reads them one after the other and white *)
(* space is all the same to it.  A numeral consists of digits, because it  *)
(* can be cut and is still a numeral; any other word is a name, and what   *)
(* is left of a command or a name that is cut is one more name.            *)
(***************************************************************************)
EXTENDS Integers, Sequences, FiniteSetsExt, SequencesExt

CONSTANTS
    kMaxChunkId,    \* largest chunk number a message may carry
    kMaxChunkSize   \* largest chunk size

ASSUME LimitsAssumption == {kMaxChunkId, kMaxChunkSize} \subseteq Nat

Name(t) == [text |-> t, digits |-> <<>>]

\* INT_MAX
MaxInt == 2^30 + (2^30 - 1)

\* to_string of an int or a size_t, which has at most twenty digits
Numeral(n) ==
    LET width == CHOOSE w \in 1..20 : n < 10^w /\ \A v \in 1..(w - 1) : n >= 10^v
    IN  [text |-> "", digits |-> [i \in 1..width |-> (n \div 10^(width - i)) % 10]]

\* Definitions whose name starts with Bad are not the code: each is a plausible
\* slip in the definition that follows it, which some property has to notice.

\* a number ends with its first digit
BadNumber(word) == IF word.digits = <<>> THEN -1 ELSE Head(word.digits)

\* stoll, which refuses a name; that has the fate of a negative number
Number(word) ==
    LET AppendDigit(n, d) == 10 * n + d
    IN  IF word.digits = <<>> THEN -1 ELSE FoldLeft(AppendDigit, 0, word.digits)

\* isSafeFileId: one word (its characters and its length are left out)
IsSafeFileId(fileId) == Len(fileId) = 1

-----------------------------------------------------------------------------
(* Building *)

BuildRequestMessage(fileId, chunkId) ==
    <<Name("REQUEST")>> \o fileId \o <<Numeral(chunkId)>>

BuildChunkMessage(fileId, chunkId, chunkSize, chunkHash) ==
    <<Name("CHUNK")>> \o fileId
        \o <<Numeral(chunkId), Numeral(chunkSize), chunkHash>>

BuildErrorMessage(errorText) == <<Name("ERROR")>> \o errorText

\* What may have arrived of a message: some words, and maybe a part of the next.
Pieces(message) ==
    {SubSeq(message, 1, k) : k \in 1..Len(message)} \cup
    UNION {{Append(SubSeq(message, 1, k - 1),
                   [message[k] EXCEPT !.digits = SubSeq(@, 1, d)]) :
               d \in 1..(Len(message[k].digits) - 1)} : k \in 1..Len(message)}

-----------------------------------------------------------------------------
(* Parsing *)

Unknown == [valid |-> FALSE, type |-> "UNKNOWN", fileId |-> <<>>, chunkId |-> -1,
            chunkSize |-> 0, chunkHash |-> Name(""), payload |-> <<>>]
Valid(type) == [Unknown EXCEPT !.valid = TRUE, !.type = type]

\* The words of a message that is refused are never looked at; CONNECT and
\* COMPLETE, which no peer sends, are left out.
ParseMessage(word) ==
    LET Is(command, n) == Len(word) >= n /\ word[1] = Name(command)
        IdInRange == Number(word[3]) \in 0..kMaxChunkId
    IN  CASE Is("REQUEST", 3) /\ IdInRange ->
                [Valid("REQUEST") EXCEPT !.fileId = <<word[2]>>,
                                         !.chunkId = Number(word[3])]
          [] Is("CHUNK", 5) /\ IdInRange /\ Number(word[4]) \in 1..kMaxChunkSize ->
                [Valid("CHUNK") EXCEPT !.fileId = <<word[2]>>,
                                       !.chunkId = Number(word[3]),
                                       !.chunkSize = Number(word[4]),
                                       !.chunkHash = word[5]]
          [] Is("ERROR", 1) -> [Valid("ERROR") EXCEPT !.payload = Tail(word)]
          [] OTHER -> Unknown
=============================================================================
