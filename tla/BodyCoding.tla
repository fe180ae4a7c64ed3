----------------------------- MODULE BodyCoding -----------------------------
(* Bodies coded in transit by the client's middleware (without_http/client.py): *)
(* decompress decodes a response as it arrives, compressing encodes a request *)
(* as it is produced.  What an origin's encoder wrote is the sequence of its  *)
(* data and of the ends of its members; a read brings any piece of it.        *)
EXTENDS Naturals, Sequences, FiniteSets, SequencesExt

CONSTANTS
    MaxWire,     \* data and ends in a response
    MaxUpload    \* chunks in a request

ASSUME CodingAssumption == MaxWire \in Nat /\ MaxUpload \in Nat

VARIABLES
    codec,       \* of the response, and what its encoder wrote
    encoded,
    arriving,    \* what of it has not been read
    decoder,     \* eof, and what all decoders together gave
    sawBytes,    \* saw_compressed_bytes
    seam,        \* a read began where a member had ended
    delivery,    \* how the caller's iteration stands
    uploading    \* _compressed: its body, its codec and what was sent

downloadVars == <<codec, encoded, arriving, decoder, sawBytes, seam, delivery>>
codingVars == <<downloadVars, uploading>>

Framing == {"content-length", "transfer-encoding"}

(* compressing: a request that is coded already, or has no body, is let be.   *)
Reframed(headers) ==
    IF "content-encoding" \in headers \/ headers \cap Framing = {} THEN headers
    ELSE (headers \ Framing) \cup {"content-encoding", "transfer-encoding"}

Uploads ==
    { [headers |-> headers, plain |-> Reframed(headers) = headers, streams |-> streams,
       pulled |-> <<>>, held |-> 0, inside |-> 0, sent |-> 0, done |-> FALSE] :
        headers \in {{}, {"content-length"}, {"transfer-encoding"},
                     {"content-length", "content-encoding"}}, streams \in BOOLEAN }

CodingInit ==
    /\ codec \in {"gzip", "zstd", "br"}
    /\ encoded \in UNION {[1 .. n -> {"data", "end"}] : n \in 0 .. MaxWire}
    /\ arriving = encoded
    /\ decoder = [eof |-> FALSE, decoded |-> 0]
    /\ sawBytes = FALSE /\ seam = FALSE
    /\ delivery = "reading"
    /\ uploading \in Uploads

-----------------------------------------------------------------------------
(* _decompressed.                                                             *)
CountOf(what, s) == Cardinality({i \in DOMAIN s : s[i] = what})
Through(s) == s # <<>> /\ Last(s) = "end"

(* A coding that keeps nothing of what follows a member has no next one; and a *)
(* zstd decoder that is at the end of its frame takes no more, not even to    *)
(* hand it back.                                                              *)
Refuses(eof, chunk) ==
    \/ codec = "zstd" /\ eof
    \/ codec = "br" /\ (eof \/ CountOf("end", Front(chunk)) > 0)

(* Each decoder takes one member and hands what follows to the next one.      *)
Decoded(eof, chunk) == [eof |-> Through(chunk), decoded |-> CountOf("data", chunk)]

ReadsPiece(n) ==
    /\ delivery = "reading" /\ n <= Len(arriving)
    /\ LET chunk == SubSeq(arriving, 1, n)
       IN  /\ arriving' = SubSeq(arriving, n + 1, Len(arriving))
           /\ sawBytes' = TRUE
           /\ seam' = (seam \/ decoder.eof)
           /\ IF Refuses(decoder.eof, chunk)
              THEN delivery' = "raised" /\ UNCHANGED decoder
              ELSE /\ decoder' = [eof |-> Decoded(decoder.eof, chunk).eof,
                                  decoded |-> decoder.decoded + Decoded(decoder.eof, chunk).decoded]
                   /\ UNCHANGED delivery
    /\ UNCHANGED <<codec, encoded, uploading>>

(* The response ends as its framing says it should.                           *)
EndsCleanly ==
    /\ delivery = "reading" /\ arriving = <<>>
    /\ delivery' = IF sawBytes /\ ~decoder.eof THEN "raised" ELSE "whole"
    /\ UNCHANGED <<codec, encoded, arriving, decoder, sawBytes, seam, uploading>>

(* It breaks off, or the caller does.                                         *)
BreaksOff ==
    /\ delivery = "reading"
    /\ delivery' = "broken"
    /\ UNCHANGED <<codec, encoded, arriving, decoder, sawBytes, seam, uploading>>

-----------------------------------------------------------------------------
(* _compressed: one chunk is held, so that the last one is known for it.      *)
PullsChunk(size) ==
    /\ ~uploading.done /\ ~uploading.plain /\ Len(uploading.pulled) < MaxUpload
    /\ LET fed == uploading.inside + uploading.held
           out == uploading.held > 0 /\ uploading.streams
       IN  uploading' = [uploading EXCEPT !.pulled = Append(@, size), !.held = size,
                                    !.inside = IF out THEN 0 ELSE fed,
                                    !.sent = IF out THEN @ + fed ELSE @]
    /\ UNCHANGED downloadVars

FlushesAll ==
    /\ ~uploading.done /\ ~uploading.plain
    /\ uploading' = [uploading EXCEPT !.done = TRUE, !.held = 0, !.inside = 0,
                                !.sent = @ + uploading.inside + uploading.held]
    /\ UNCHANGED downloadVars

DownloadNext == EndsCleanly \/ BreaksOff \/ \E n \in 1 .. MaxWire : ReadsPiece(n)

UploadNext == FlushesAll \/ \E size \in {0, 1} : PullsChunk(size)

CodingNext == DownloadNext \/ UploadNext

CodingSpec == CodingInit /\ [][CodingNext]_codingVars

-----------------------------------------------------------------------------
(* However the reads cut it: a response that ends without an error was handed *)
(* over whole, every member of it and nothing of one that is cut; one that is *)
(* whole raises only where its coding cannot take it as it was cut.  And an   *)
(* uploading sends all of its body, and while it goes on holds back no more than  *)
(* the chunk pulled last.                                                     *)
CodedWhole ==
    /\ delivery = "whole" =>
         /\ arriving = <<>> /\ decoder.decoded = CountOf("data", encoded)
         /\ encoded = <<>> \/ Through(encoded)
    /\ delivery = "raised" /\ (arriving = <<>> /\ Through(encoded)) =>
         \/ codec = "zstd" /\ seam
         \/ codec = "br" /\ CountOf("end", encoded) > 1
    /\ uploading.done => uploading.sent = CountOf(1, uploading.pulled)
    /\ uploading.streams =>
         CountOf(1, uploading.pulled) - uploading.sent
            <= IF uploading.pulled = <<>> THEN 0 ELSE Last(uploading.pulled)
=============================================================================
