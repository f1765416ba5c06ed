------------------------- MODULE RequestPreparation -------------------------
(***************************************************************************)
(* Client.Prepare, the body it measures, each attempt that opens it, and   *)
(* the reading of the answer.  A file may change after it was measured.    *)
(* When to retry is RequestExec's subject; here one 405 leads to a second  *)
(* attempt where the body can be opened again.                             *)
(***************************************************************************)
EXTENDS Integers, Sequences, SequencesExt, LimitedReading

CONSTANTS
  MaxResponseBytes,
  MaxFile,          \* bound on the size of a body
  Spelling          \* the texts callers give as paths, trimmed and split at every "/"
ASSUME BodyAssumption == MaxResponseBytes \in Nat /\ MaxFile \in Nat
ASSUME SpellingAssumption == Spelling \subseteq Seq(STRING) \ {<<>>}

VARIABLES
  request,    \* what the caller asks for, and of which client
  ready,      \* the PreparedRequest, or NotPrepared
  size,       \* the body's content as it is now
  opened,     \* how often the body was opened
  onWire,     \* requests the transport was given
  transfer,   \* bytes of the last attempt the device received
  progress,   \* what ProgressBody reported last in this attempt
  answer      \* "start", "prepared", "answered" or how the call ended

requestVars == <<request, ready, size, opened, onWire, transfer, progress, answer>>

Unknown == -1
NotPrepared == [method |-> "none", path |-> <<>>]

Upper == [GET |-> "GET", get |-> "GET", POST |-> "POST", post |-> "POST", DELETE |-> "DELETE"]
Requests(methods, paths, remotes, callerHeaders, bodies, responses) ==
  [method : methods, path : paths, remote : remotes, header : callerHeaders,
   body : bodies, reports : BOOLEAN, response : responses]
Small == [units |-> 0, fails |-> FALSE]

RequestQuiet == ready = NotPrepared /\ opened = 0 /\ onWire = <<>> /\ transfer = 0 /\ progress = 0
RequestIdle ==
  /\ RequestQuiet /\ size = 0 /\ answer = "none"
  /\ request = CHOOSE r \in Requests({"GET"}, {<<"">>}, {FALSE}, {"none"}, {"none"}, {Small}) : TRUE
RequestInit ==
  /\ RequestQuiet /\ answer = "start" /\ size \in 0..MaxFile
  /\ request \in
       Requests(DOMAIN Upper, Spelling, BOOLEAN, {"none", "Authorization", "X-Api-Token"}, {"none"}, {Small})
       \cup Requests({"POST"}, {<<"storage", "write">>}, {FALSE}, {"none"},
                     {"none", "bytes", "reader", "file"}, Inputs(MaxResponseBytes + 2))

-----------------------------------------------------------------------------
\* canonicalAPIPath.  The text "" is <<"">>; a leading slash leaves an empty segment
\* in front, which the canonical path, always with that slash, is written without.
Acceptable(text) ==
  /\ text # <<"">>
  /\ ~\E i \in 1..Len(text) - 2 : text[i] = "http:" /\ text[i + 1] = ""
  /\ ~(Len(text) > 1 /\ text[1] = "" /\ text[2] = "busybar")
canonicalAPIPath(text) ==
  LET path == IF Len(text) > 1 /\ text[1] = "" THEN Tail(text) ELSE text
  IN IF path[1] = "api" THEN path ELSE <<"api">> \o path

remoteBlockedOperations ==
  {<<"POST", <<"api", "update">>>>, <<"DELETE", <<"api", "account">>>>,
   <<"PUT", <<"api", "account", "backend">>>>, <<"POST", <<"api", "account", "link">>>>,
   <<"POST", <<"api", "wifi", "connect">>>>, <<"POST", <<"api", "wifi", "disconnect">>>>,
   <<"GET", <<"api", "wifi", "networks">>>>}
\* Fault: the blocklist takes the path literally.
IsBlockedAsSpelled(method, path) == <<method, path>> \in remoteBlockedOperations

IsRemoteBlockedOperation(method, path) ==
  <<method, IF path # <<"api", "">> /\ Last(path) = "" THEN Front(path) ELSE path>>
    \in remoteBlockedOperations

\* prepareBody: the length of bytes and files is known; zero with a body means
\* unknown to the HTTP client.
contentLength ==
  CASE request.body = "none" -> 0
    [] request.body \in {"bytes", "file"} /\ size > 0 -> size
    [] OTHER -> Unknown

Prepare ==
  /\ answer = "start"
  /\ LET method == Upper[request.method]
         path == canonicalAPIPath(request.path)
         allowed ==
           /\ Acceptable(request.path)
           /\ ~(request.remote /\ IsRemoteBlockedOperation(method, path))
           /\ request.header = "none"
     IN IF allowed
        THEN /\ answer' = "prepared"
             /\ ready' = [method |-> method, path |-> path, length |-> contentLength,
                          token |-> ~request.remote]
        ELSE answer' = "rejected" /\ UNCHANGED ready
  /\ UNCHANGED <<request, size, opened, onWire, transfer, progress>>

\* Somebody writes to the file between Prepare and an attempt.
FileChanges ==
  /\ request.body = "file" /\ answer = "prepared"
  /\ size' \in 0..MaxFile \ {size}
  /\ UNCHANGED <<request, ready, opened, onWire, transfer, progress, answer>>

\* What can be read once is gone after an attempt.
consumed == request.body = "reader" /\ opened > 0
\* ProgressBody counts what is read from the body it wraps.
reported(bytes) == IF request.reports THEN bytes ELSE 0

\* sendOnce: open the body and hand the request to the HTTP client, which reads
\* the body to its end and fails when that is not the length it was given.
SendOnce ==
  /\ answer = "prepared"
  /\ IF consumed
     THEN answer' = "consumed" /\ UNCHANGED <<opened, onWire, transfer, progress>>
     ELSE LET bytes == IF request.body = "none" THEN 0 ELSE size
          IN /\ opened' = IF request.body = "none" THEN 0 ELSE opened + 1
             /\ onWire' = Append(onWire, [method |-> ready.method, path |-> ready.path,
                                          token |-> ready.token])
             /\ transfer' = bytes
             /\ progress' = reported(bytes)
             /\ answer' = IF ready.length \in {Unknown, bytes} THEN "answered" ELSE "failed"
  /\ UNCHANGED <<request, ready, size>>

\* A 405 in the first attempt: once more, where the body can be opened again.
CompatibilityRetry ==
  /\ answer = "answered" /\ Len(onWire) = 1 /\ request.body # "reader"
  /\ answer' = "prepared" /\ progress' = 0
  /\ UNCHANGED <<request, ready, size, opened, onWire, transfer>>

\* readBufferedResponse, or streamResponseTo, which has no limit.
Respond ==
  /\ answer = "answered"
  /\ answer' \in {ReadAll(request.response, MaxResponseBytes),
                  IF request.response.fails THEN "error" ELSE "streamed"}
  /\ UNCHANGED <<request, ready, size, opened, onWire, transfer, progress>>

RequestNext == Prepare \/ FileChanges \/ SendOnce \/ CompatibilityRetry \/ Respond

-----------------------------------------------------------------------------
\* What a remote client may not call does not leave it in the firmware's spelling of
\* it, with or without one slash at its end: whatever case the method was given in,
\* and with or without /api and a leading slash.  (A path with further empty segments,
\* as in update// or //update, is another path to the client and is sent as it is.)
\* Credentials are the client's, and only at home.  A call that succeeds has sent the
\* body as it was when opened, once when it can be read only once, has reported
\* exactly that, and returns the whole answer (Prepare, canonicalAPIPath,
\* IsRemoteBlockedOperation, sendOnce, progressReadCloser, readAndCloseResponseBody).
SameOperation(sent, operation) ==
  sent.method = operation[1] /\ sent.path \in {operation[2], Append(operation[2], "")}
SentAsPrepared ==
  /\ \A i \in DOMAIN onWire :
       /\ request.remote =>
            ~onWire[i].token /\ \A op \in remoteBlockedOperations : ~SameOperation(onWire[i], op)
       /\ request.header = "none"
  /\ request.body = "reader" => opened <= 1
  /\ answer \in {"data", "streamed"} =>
       /\ request.body # "none" => transfer = size /\ ready.length \in {Unknown, size}
       /\ request.reports => progress = transfer
       /\ ~request.response.fails
  /\ answer = "data" => request.response.units <= MaxResponseBytes
=============================================================================
