----------------------------- MODULE Responses -----------------------------
(***************************************************************************)
(* The answer to one request as it comes in: header lines, of a redirect   *)
(* first perhaps, and the pieces of the document (receiveHeader,           *)
(* receiveBody and request of httplib.cpp; the transfer itself is curl).   *)
(***************************************************************************)
EXTENDS Naturals, Sequences, FiniteSetsExt, SequencesExt

CONSTANTS
  Types,         \* media types: "html", "image", "text" are shown
  LongType,      \* one of them, too long for a block
  Names, Unsafe, \* names of files, and those that are not safe
  Redirect, Found, Missing,   \* a status of each kind
  MaxHeaders,    \* bytes of header lines allowed; a line is one
  MaxDocument,
  MaxBlocks      \* bound: header blocks of an answer

Nothing == ""   \* a text of C whose first byte is zero

\* The statuses differ, no type and no name is empty, and a document may have
\* bytes.
ResponseAssumption ==
  /\ Redirect # Found /\ Found # Missing /\ Missing # Redirect
  /\ Nothing \notin Types \cup Names /\ Unsafe \subseteq Names
  /\ MaxDocument \in Nat \ {0}

Shown == {"html", "image", "text"}
Lines == {<<"type", t>> : t \in Types} \cup {<<"name", n>> : n \in Names} \cup {<<"end">>}

VARIABLES
  post,          \* whether a form is sent
  pc,            \* "headers", "body", "ended"
  blocks,        \* the header blocks the server has sent
  headerBytes,
  status,        \* of the block, 0 at the start
  type, filename,
  attachment, stoppedForAttachment,
  length,        \* bytes of the document
  pieces,        \* the pieces the server has sent
  result,        \* what curl reports: "none", "ok", "write error", "failed"
  output         \* what request gives

response == <<headerBytes, status, type, filename, attachment, stoppedForAttachment, length>>
vars == <<post, pc, blocks, pieces, result, output, response>>

emptyblock == [size |-> 0, data |-> Nothing, type |-> Nothing]

Init ==
  /\ post \in BOOLEAN /\ pc = "headers" /\ blocks = <<>>
  /\ headerBytes = 0 /\ status = 0 /\ type = Nothing /\ filename = Nothing
  /\ attachment = FALSE /\ stoppedForAttachment = FALSE
  /\ length = 0 /\ pieces = <<>> /\ result = "none" /\ output = emptyblock

\* curl ends the request and request looks at what has come.
End(how, media) ==
  /\ pc' = "ended" /\ result' = how
  /\ output' =
       IF how = "write error" /\ stoppedForAttachment' /\ ~post
       THEN [size |-> -1, data |-> filename', type |-> type']
       ELSE IF how # "ok" \/ status' # Found \/ media = LongType THEN emptyblock
       ELSE [size |-> length', data |-> pieces', type |-> media]

GoOn(stage) == pc' = stage /\ UNCHANGED <<result, output>>

InBlock == IF blocks = <<>> THEN FALSE ELSE Last(Last(blocks)) # <<"end">>

\* Mutant: the name an earlier server gave is kept for the next answer.
StatusLine_KeepsName(s) ==
  /\ pc = "headers" /\ Len(blocks) < MaxBlocks
  /\ ~InBlock
  /\ blocks' = Append(blocks, <<<<"status", s>>>>)
  /\ IF headerBytes >= MaxHeaders
     THEN UNCHANGED response /\ UNCHANGED pieces /\ End("write error", Nothing)
     ELSE /\ headerBytes' = headerBytes + 1
          /\ status' = s /\ type' = Nothing
          /\ attachment' = FALSE /\ stoppedForAttachment' = FALSE
          /\ UNCHANGED <<filename, length>>
          /\ GoOn("headers")
  /\ UNCHANGED <<post, pieces>>

\* The first line of a block: what the blocks before it said is forgotten.
StatusLine(s) ==
  /\ pc = "headers" /\ Len(blocks) < MaxBlocks
  /\ ~InBlock
  /\ blocks' = Append(blocks, <<<<"status", s>>>>)
  /\ IF headerBytes >= MaxHeaders
     THEN UNCHANGED response /\ UNCHANGED pieces /\ End("write error", Nothing)
     ELSE /\ headerBytes' = headerBytes + 1
          /\ status' = s /\ type' = Nothing /\ filename' = Nothing
          /\ attachment' = FALSE /\ stoppedForAttachment' = FALSE
          /\ UNCHANGED length
          /\ GoOn("headers")
  /\ UNCHANGED <<post, pieces>>

\* Another line.  The callback refuses one too many, a type too long and an
\* unsafe name; the end of a block of an attachment stops the transfer.
Refused(l) ==
  \/ headerBytes >= MaxHeaders
  \/ l = <<"type", LongType>>
  \/ l[1] = "name" /\ l[2] \in Unsafe
Stops(l) == l = <<"end">> /\ status = Found /\ attachment

\* The type curl itself keeps: that of the last line of the block.
Media(block) ==
  LET types == {i \in DOMAIN block : block[i][1] = "type"} IN
  IF types = {} THEN "text" ELSE block[Max(types)][2]

receiveHeader(l) ==
  /\ pc = "headers" /\ InBlock
  /\ blocks' = [blocks EXCEPT ![Len(blocks)] = Append(@, l)]
  /\ headerBytes' = IF headerBytes >= MaxHeaders THEN headerBytes ELSE headerBytes + 1
  /\ IF Refused(l) THEN UNCHANGED <<type, filename, attachment>>
     ELSE /\ type' = IF l[1] = "type" THEN l[2] ELSE type
          /\ attachment' = IF l[1] = "type" THEN l[2] \notin Shown ELSE attachment
          /\ filename' = IF l[1] = "name" THEN l[2] ELSE filename
  /\ stoppedForAttachment' = (~Refused(l) /\ Stops(l))
  /\ UNCHANGED <<post, status, length, pieces>>
  /\ IF Refused(l) \/ Stops(l) THEN End("write error", Nothing)
     ELSE IF l # <<"end">> THEN GoOn("headers")
     ELSE IF status = Missing THEN End("failed", Nothing)
     ELSE \/ status = Redirect /\ ~post /\ GoOn("headers")
          \/ GoOn("body")

\* A piece that would leave no room for the zero at the end is refused.
receiveBody(n) ==
  /\ pc = "body"
  /\ pieces' = Append(pieces, n)
  /\ UNCHANGED <<post, blocks, headerBytes, status, type, filename, attachment, stoppedForAttachment>>
  /\ IF length + n > MaxDocument - 1
     THEN UNCHANGED length /\ End("write error", Nothing)
     ELSE length' = length + n /\ GoOn("body")

\* The document is complete, or the connection is lost or cancelled.
Complete ==
  /\ pc = "body"
  /\ UNCHANGED <<post, blocks, pieces, response>>
  /\ End("ok", Media(Last(blocks)))
Fail ==
  /\ pc # "ended"
  /\ UNCHANGED <<post, blocks, pieces, response>>
  /\ End("failed", Nothing)

Next ==
  \/ \E s \in {Redirect, Found, Missing} : StatusLine(s)
  \/ \E l \in Lines : receiveHeader(l)
  \/ \E n \in 1..2 : receiveBody(n)
  \/ Complete \/ Fail

Spec == Init /\ [][Next]_vars

-----------------------------------------------------------------------------
Total(document) ==
  LET sum[i \in 0..Len(document)] == IF i = 0 THEN 0 ELSE sum[i - 1] + document[i] IN
  sum[Len(document)]

Said(block, what) == {block[i][2] : i \in {j \in DOMAIN block : block[j][1] = what}}

\* What request gives is of the last answer alone, whatever the redirects
\* before it said: an attachment has a type that is not shown and a name
\* that is safe, both said by that answer, and is given for a request
\* without a form only; a page is complete, of a size allowed, found by that
\* answer, and of a type that is shown (httplib.cpp:22-104, 112-164).
AnswerIsTheLast ==
  pc = "ended" =>
    /\ output.size = -1 =>
         /\ ~post /\ status = Found
         /\ output.type \in Said(Last(blocks), "type") \ Shown
         /\ output.data \in ({Nothing} \cup Said(Last(blocks), "name")) \ Unsafe
         /\ output.data = Nothing => Said(Last(blocks), "name") = {}
         /\ length = 0
    /\ output.type # Nothing /\ output.size # -1 =>
         /\ result = "ok" /\ <<"status", Found>> \in ToSet(Last(blocks))
         /\ output.size = Total(output.data)
         /\ output.size < MaxDocument
         /\ output.type \in Shown
=============================================================================
