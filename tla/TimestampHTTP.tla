---------------------------- MODULE TimestampHTTP ----------------------------
(***************************************************************************)
(* One exchange of NewHTTPTimestampExchange: a POST and the response read   *)
(* by readTimestampHTTP, from a server that may send anything, stop in the  *)
(* middle, close the connection or stay silent, while the deadline runs.    *)
(* Every line counts one against a budget, as does the end of a chunk; a    *)
(* body is the number of its bytes.  What bufio has buffered can be read    *)
(* after the deadline has closed the connection.                            *)
(***************************************************************************)
EXTENDS Integers

CONSTANTS
  HeaderLimit,   \* timestampHeaderLimit, in lines
  MaxHeaders,    \* header lines of one block
  MaxInterim,    \* informational responses
  MaxBody        \* maxTimestampSize

ASSUME ExchangeAssumption ==
  HeaderLimit \in Nat \ {0} /\ MaxHeaders \in Nat \ {0} /\ MaxInterim \in Nat /\ MaxBody \in Nat

VARIABLES
  reading,   \* what is read next
  budget,    \* lines left
  interim,   \* informational responses so far
  count,     \* header lines of the block
  statusCode, \* the last status code
  headers,   \* the four headers that are kept, of the last block
  body,      \* bytes of the body so far
  rest,      \* bytes of the body or chunk that are still to come
  expired,   \* the deadline has passed, or the caller has cancelled
  failure,   \* the cause that is reported
  late,      \* history: it had expired when the response was complete
  lines,     \* history: lines the server got the client to read
  sent,      \* history: bytes of the body that the server sent
  whole      \* history: the server ended its message as its framing says

response == <<budget, interim, count, statusCode, headers>>
content == <<body, rest>>
ghosts == <<late, lines, sent, whole>>
exchangeVars == <<reading, response, content, expired, failure, ghosts>>

NoHeaders == [cl |-> -1, te |-> "absent", ct |-> "absent", ce |-> "absent"]

Ended == reading \in {"done", "failed"}

\* timestampNetworkError: the context's error comes before any other.
FailExchange(cause) ==
  /\ reading' = "failed"
  /\ failure' = IF expired THEN "deadline" ELSE cause

---------------------------------------------------------------------------
(* The request *)

\* The call that NewHTTPTimestampExchange returns; dialling may fail.
Dial ==
  /\ reading = "idle"
  /\ \/ reading' = "write" /\ UNCHANGED failure
     \/ FailExchange("network")
  /\ UNCHANGED <<response, content, expired, ghosts>>

WriteRequest ==
  /\ reading = "write" /\ ~expired
  /\ reading' = "status"
  /\ UNCHANGED <<response, content, expired, failure, ghosts>>

\* A call on the connection fails: it was closed, reset, or has ended.
CallFails ==
  /\ reading \notin {"idle", "final", "done", "failed"}
  /\ FailExchange("network")
  /\ UNCHANGED <<response, content, expired, ghosts>>

---------------------------------------------------------------------------
(* Lines *)

\* timestampHTTPLine: the budget is charged for a line that was read.
Charged == budget' = budget - 1 /\ lines' = lines + 1

\* A line over the budget, or one with a wrong ending or control characters.
BadLine ==
  /\ reading \in {"status", "headers", "chunk", "trailers"}
  /\ Charged
  /\ FailExchange("malformed")
  /\ UNCHANGED <<interim, count, statusCode, headers, content, expired, late, sent, whole>>

\* Mutant of Line: the charge is not compared with the budget.
LineUnbounded(where) == reading = where /\ budget >= 0 /\ Charged

Line(where) == reading = where /\ budget > 0 /\ Charged

\* Mutant of StatusLine: every response starts with a new budget.
StatusLineAfresh(code) ==
  /\ reading = "status" /\ interim <= MaxInterim
  /\ budget' = HeaderLimit /\ lines' = lines + 1
  /\ statusCode' = code
  /\ headers' = NoHeaders /\ count' = 0
  /\ reading' = "headers"
  /\ UNCHANGED <<interim, content, expired, failure, late, sent, whole>>

StatusLine(code) ==
  /\ interim <= MaxInterim
  /\ Line("status")
  /\ statusCode' = code
  /\ headers' = NoHeaders /\ count' = 0
  /\ reading' = "headers"
  /\ UNCHANGED <<interim, content, expired, failure, late, sent, whole>>

TooManyInterim ==
  /\ reading = "status" /\ interim > MaxInterim
  /\ FailExchange("malformed")
  /\ UNCHANGED <<response, content, expired, ghosts>>

\* timestampHTTPHeaders, for a response or for trailers.
HeaderLine(name, value, where) ==
  /\ count < MaxHeaders
  /\ Line(where)
  /\ count' = count + 1
  /\ IF name # "other" /\ headers[name] # NoHeaders[name]
     THEN FailExchange("malformed") /\ UNCHANGED headers
     ELSE /\ headers' = IF name = "other" THEN headers ELSE [headers EXCEPT ![name] = value]
          /\ UNCHANGED <<reading, failure>>
  /\ UNCHANGED <<interim, statusCode, content, expired, late, sent, whole>>

TooManyHeaders ==
  /\ reading \in {"headers", "trailers"} /\ count = MaxHeaders
  /\ FailExchange("malformed")
  /\ UNCHANGED <<response, content, expired, ghosts>>

---------------------------------------------------------------------------
(* readTimestampHTTP *)

Informational == {100, 102, 103}

\* Mutant of Framing: a length is used when there is one.
FramingLength(h) ==
  IF h.cl >= 0 THEN IF h.cl <= MaxBody THEN "length" ELSE "malformed"
  ELSE IF h.te = "chunked" THEN "chunk" ELSE IF h.te # "absent" THEN "malformed" ELSE "rest"

\* How the body ends; -2 stands for a length that is not a number.
Framing(h) ==
  IF h.te # "absent" THEN IF h.cl # -1 \/ h.te # "chunked" THEN "malformed" ELSE "chunk"
  ELSE IF h.cl = -1 THEN "rest"
  ELSE IF h.cl \in 0..MaxBody THEN "length" ELSE "malformed"

Acceptable == statusCode = 200 /\ headers.ct = "reply" /\ headers.ce \in {"absent", "identity"}

\* The empty line after the headers.  What follows an informational response is
\* another one; a body is read as the headers say, with a budget of its own.
EndHeaders ==
  LET framing == Framing(headers) IN
  /\ count < MaxHeaders
  /\ reading = "headers" /\ budget > 0 /\ lines' = lines + 1
  /\ IF statusCode \in Informational
     THEN /\ IF headers.cl # -1 \/ headers.te # "absent" THEN FailExchange("malformed")
                                                 ELSE reading' = "status" /\ UNCHANGED failure
          /\ interim' = interim + 1 /\ budget' = budget - 1
          /\ UNCHANGED rest
     ELSE /\ IF Acceptable /\ framing # "malformed" THEN reading' = framing /\ UNCHANGED failure
                                                    ELSE FailExchange("malformed")
          /\ rest' = IF framing = "length" THEN headers.cl ELSE 0
          /\ budget' = IF framing = "chunk" THEN HeaderLimit ELSE budget - 1
          /\ UNCHANGED interim
  /\ UNCHANGED <<count, statusCode, headers, body, expired, late, sent, whole>>

\* A byte that the server sends; reads are repeated until all is there.
Byte ==
  /\ reading \in {"length", "data"} /\ rest > 0
  /\ body' = body + 1 /\ rest' = rest - 1 /\ sent' = sent + 1
  /\ UNCHANGED <<reading, response, expired, failure, late, lines, whole>>

CompleteResponse ==
  /\ reading' = "final"
  /\ whole' = TRUE
  /\ late' = expired

EndLength ==
  /\ reading = "length" /\ rest = 0
  /\ CompleteResponse
  /\ UNCHANGED <<response, content, expired, failure, lines, sent>>

\* Without framing the body is what the server sends until it closes the
\* connection; one byte more than the limit is read to notice that there is one.
RestByte ==
  /\ reading = "rest" /\ body <= MaxBody
  /\ body' = body + 1 /\ sent' = sent + 1
  /\ UNCHANGED <<reading, response, rest, expired, failure, late, lines, whole>>

ServerCloses ==
  /\ reading = "rest" /\ body <= MaxBody /\ ~expired
  /\ CompleteResponse
  /\ UNCHANGED <<response, content, expired, failure, lines, sent>>

TooLong ==
  /\ reading = "rest" /\ body > MaxBody
  /\ FailExchange("malformed")
  /\ UNCHANGED <<response, content, expired, ghosts>>

---------------------------------------------------------------------------
(* readTimestampChunks *)

\* A size in hexadecimal digits; the last chunk is empty.
ChunkSize(n) ==
  /\ Line("chunk")
  /\ IF n > MaxBody - body THEN FailExchange("malformed") /\ UNCHANGED <<rest, headers, count>>
     ELSE /\ rest' = n
          /\ reading' = IF n = 0 THEN "trailers" ELSE "data"
          /\ headers' = NoHeaders /\ count' = 0
          /\ UNCHANGED failure
  /\ UNCHANGED <<interim, statusCode, body, expired, late, sent, whole>>

\* The line ending after the data is charged as well.
ChunkEnd(good) ==
  /\ reading = "data" /\ rest = 0
  /\ budget' = budget - 1 /\ lines' = lines + 1
  /\ IF budget > 0 /\ good THEN reading' = "chunk" /\ UNCHANGED failure ELSE FailExchange("malformed")
  /\ UNCHANGED <<interim, count, statusCode, headers, content, expired, late, sent, whole>>

\* Trailers may not frame or describe the body.
EndTrailers ==
  /\ count < MaxHeaders
  /\ Line("trailers")
  /\ IF headers = NoHeaders THEN CompleteResponse /\ UNCHANGED failure
                            ELSE FailExchange("malformed") /\ UNCHANGED <<late, whole>>
  /\ UNCHANGED <<interim, count, statusCode, headers, content, expired, sent>>

---------------------------------------------------------------------------

\* Mutant of Return: whatever was read is returned.
ReturnAnyway ==
  /\ reading = "final"
  /\ reading' = "done"
  /\ UNCHANGED <<response, content, expired, failure, ghosts>>

\* The last look at the context.
Return ==
  /\ reading = "final"
  /\ IF expired THEN FailExchange("deadline") ELSE reading' = "done" /\ UNCHANGED failure
  /\ UNCHANGED <<response, content, expired, ghosts>>

\* Mutant of Expire: the time only limits the connecting and the request.
ExpireSending ==
  /\ reading = "write" /\ ~expired
  /\ expired' = TRUE
  /\ UNCHANGED <<reading, response, content, failure, ghosts>>

\* The timer of context.WithTimeout; AfterFunc and SetDeadline end every call
\* on the connection.
Expire ==
  /\ ~expired /\ reading # "idle" /\ ~Ended
  /\ expired' = TRUE
  /\ UNCHANGED <<reading, response, content, failure, ghosts>>

ExchangeInit ==
  /\ reading = "idle" /\ budget = HeaderLimit /\ interim = 0 /\ count = 0
  /\ statusCode = 0 /\ headers = NoHeaders /\ body = 0 /\ rest = 0
  /\ expired = FALSE /\ failure = "none"
  /\ late = FALSE /\ lines = 0 /\ sent = 0 /\ whole = FALSE

Values(name) == CASE name = "cl" -> {-2} \cup 0..MaxBody + 1 [] name = "te" -> {"chunked", "gzip"}
                  [] name = "ct" -> {"reply", "html"} [] name = "ce" -> {"identity", "gzip"}
                  [] OTHER -> {"absent"}

\* What depends on the server.
Server ==
  \/ BadLine
  \/ \E code \in {100, 101, 200, 500} : StatusLine(code)
  \/ \E name \in {"cl", "te", "ct", "ce", "other"}, where \in {"headers", "trailers"} :
       \E value \in Values(name) : HeaderLine(name, value, where)
  \/ EndHeaders \/ Byte \/ RestByte \/ ServerCloses
  \/ \E n \in 0..MaxBody + 1 : ChunkSize(n)
  \/ \E good \in BOOLEAN : ChunkEnd(good)
  \/ EndTrailers

\* What the client does on its own.
ExchangeClient == Dial \/ WriteRequest \/ TooManyInterim \/ TooManyHeaders \/ EndLength \/ TooLong \/ Return

ExchangeNext == Server \/ ExchangeClient \/ CallFails \/ Expire

\* The timer fires, and a call on a closed connection returns; the server may
\* stay silent for ever.
Fairness ==
  /\ WF_exchangeVars(ExchangeClient)
  /\ WF_exchangeVars(Expire)
  /\ WF_exchangeVars(expired /\ CallFails)

ExchangeSpec == ExchangeInit /\ [][ExchangeNext]_exchangeVars

FairExchangeSpec == ExchangeSpec /\ Fairness

---------------------------------------------------------------------------
(* Properties *)

\* A response is the whole body that the server sent, ended in the one way
\* that its headers allow; a message that stops early, or could be read in two
\* ways, is never taken for one.
WholeResponse ==
  reading = "done" =>
    /\ whole /\ body = sent
    /\ statusCode = 200 /\ body <= MaxBody
    /\ headers.cl # -1 => headers.te = "absent" /\ body = headers.cl

\* "Implementations own deadlines": a response that was complete only when the
\* deadline had passed, read from what was buffered, is not returned.
NoLateResponse == reading = "done" => ~late

\* "A bounded exchange": informational responses, headers, chunks and trailers
\* together get the client to read no more lines than two budgets, and one over
\* each, however the server mixes them.
BoundedReading ==
  /\ lines <= 2 * (HeaderLimit + 1)
  /\ reading \in {"status", "headers"} => lines <= HeaderLimit
  /\ sent <= MaxBody + 1

\* Whatever the server does, also nothing, the exchange ends.
ExchangeEnds == (reading = "write") ~> Ended

Stages == {"idle", "write", "status", "headers", "length", "rest", "chunk", "data",
           "trailers", "final", "done", "failed"}

HeaderTypes == [cl : -2..MaxBody + 1, te : {"absent", "chunked", "gzip"},
                ct : {"absent", "reply", "html"}, ce : {"absent", "identity", "gzip"}]

PlaceType ==
  /\ reading \in Stages /\ failure \in {"none", "deadline", "network", "malformed"}
  /\ statusCode \in {0, 100, 101, 200, 500} /\ headers \in HeaderTypes

FlagType == expired \in BOOLEAN /\ late \in BOOLEAN /\ whole \in BOOLEAN

CountType ==
  /\ budget \in -1..HeaderLimit /\ (budget < 0 => reading = "failed")
  /\ interim \in 0..MaxInterim + 1 /\ count \in 0..MaxHeaders
  /\ body \in 0..MaxBody + 1 /\ rest \in 0..MaxBody
  /\ lines \in Nat /\ sent \in Nat

\* The type of every variable; only an over-long line takes the budget below 0.
ExchangeTypeOK == PlaceType /\ FlagType /\ CountType

\* NewHTTPTimestampExchange returns nothing but a whole and timely response, read
\* within bounds.
ResponseIsWhole == ExchangeTypeOK /\ WholeResponse /\ NoLateResponse /\ BoundedReading
=============================================================================
