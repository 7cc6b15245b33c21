------------------------------- MODULE Fetch -------------------------------
(***************************************************************************)
(* The downloads of n300vless.c that do not go through a VLESS server:     *)
(* resolve_a_doh() asks dns.google for the address of the subscription     *)
(* host, fetch_crunch_subscription() saves the subscription to a file.     *)
(* Both write one request over TLS and read until they have enough.        *)
(*                                                                         *)
(* An answer is `head' units of header, the blank line in the last one,    *)
(* then `body' units; `length' is what Content-Length says.  A file is the *)
(* sequence of the positions of the answer that were written to it.        *)
(***************************************************************************)
EXTENDS Naturals, Sequences

CONSTANTS
  HeaderMax,    \* MAX_HEADER_SIZE, in units
  RecordMax,    \* sizeof(buffer), which takes a whole TLS record
  BodyMax       \* maximum_body

ASSUME FetchAssumption ==
  /\ {HeaderMax, RecordMax, BodyMax} \subseteq Nat \ {0}
  /\ HeaderMax <= RecordMax

VARIABLES
  step,         \* "open", "read", "ended", for the fetch; "resolve", "answer"
  reply,        \* the answer the site sends
  got,          \* units of it that SSL_read() has returned
  output,       \* what was written to the output file
  exists,       \* there is an output file
  fault,        \* what went wrong outside: "none", "site", "lost", "disk"
  exit          \* exit status: "none", "ok", "failed"

fetch == <<step, reply, got, output, exists, fault, exit>>

Replies ==
  [ok : BOOLEAN, head : 1..(HeaderMax + 1), length : 0..(BodyMax + 1), body : 0..(BodyMax + 1)]

FetchInit(replies) ==
  /\ reply \in replies
  /\ got = 0 /\ output = <<>> /\ exists = FALSE /\ fault = "none" /\ exit = "none"

\* `done:' removes the output of a fetch that failed.
Failed(why) ==
  /\ step' = "ended" /\ exit' = "failed" /\ exists' = FALSE /\ fault' = why
  /\ UNCHANGED <<reply, output>>

Loses(why) == Failed(why) /\ UNCHANGED got

\* The URL file, the CA file, the connection, the certificate, the request.
OpenSite ==
  /\ step = "open"
  /\ \/ Loses("site")
     \/ step' = "read" /\ UNCHANGED <<reply, got, output, exists, fault, exit>>

HeaderComplete == exists
Positions(first, last) == [i \in 1..(last - first + 1) |-> first + i - 1]

\* A mutant: the buffer has no room for its last byte.
HeaderFits_Short(n) == n < HeaderMax

HeaderFits(n) == n <= HeaderMax

\* The answer is a 200 with a Content-Length the fetch is ready to take.
Acceptable == reply.ok /\ reply.length \in 1..BodyMax

\* Until the blank line is there, what SSL_read() returns is header; what came
\* with it is the beginning of the body.
FetchHeader ==
  /\ step = "read" /\ ~HeaderComplete
  /\ \E count \in 1..RecordMax :
       /\ got + count <= reply.head + reply.body
       /\ got' = got + count
       /\ IF ~HeaderFits(got')
            THEN Failed("none")
            ELSE \/ /\ got' < reply.head
                    /\ UNCHANGED <<step, reply, output, exists, fault, exit>>
                 \/ /\ got' >= reply.head
                    /\ IF Acceptable /\ got' - reply.head <= reply.length
                         THEN \/ /\ output' = Positions(reply.head + 1, got')
                                 /\ exists' = TRUE
                                 /\ UNCHANGED <<step, reply, fault, exit>>
                              \/ Failed("disk")
                         ELSE Failed("none")

FetchBody ==
  /\ step = "read" /\ HeaderComplete
  /\ \E count \in 1..RecordMax :
       /\ got + count <= reply.head + reply.body
       /\ got' = got + count
       /\ IF Len(output) + count > reply.length
            THEN Failed("none")
            ELSE \/ Failed("disk")
                 \/ /\ output' = output \o Positions(got + 1, got')
                    /\ IF Len(output') = reply.length
                         THEN step' = "ended" /\ exit' = "ok"
                         ELSE UNCHANGED <<step, exit>>
                    /\ UNCHANGED <<reply, exists, fault>>

\* A mutant: whatever came before the end is the subscription.
Complete_AtEnd == HeaderComplete

Complete == HeaderComplete /\ Len(output) = reply.length

\* SSL_read() returns 0 or less: the end of the answer, a connection lost, or
\* SO_RCVTIMEO.
ReadStops ==
  /\ step = "read"
  /\ IF Complete
       THEN \/ /\ step' = "ended" /\ exit' = "ok"
               /\ UNCHANGED <<reply, got, output, exists, fault>>
            \/ Loses("disk")
       ELSE Loses(IF got < reply.head + reply.body THEN "lost" ELSE "none")

-----------------------------------------------------------------------------
(* resolve_a_doh(): here the body is the JSON text, its first address in   *)
(* the unit `length' if it has one.                                        *)

ResolveOpens ==
  /\ step = "resolve"
  /\ \/ Loses("site")
     \/ step' = "answer" /\ UNCHANGED <<reply, got, output, exists, fault, exit>>

\* Read to the end of the answer, or of the buffer, or of the connection.
ResolveReads ==
  /\ step = "answer"
  /\ \E read \in 0..RecordMax :
       /\ read <= reply.head + reply.body
       /\ got' = read
       /\ exit' = IF reply.ok /\ reply.length \in 1..reply.body /\ reply.head + reply.length <= read
                    THEN "ok" ELSE "failed"
       /\ fault' = IF read < reply.head + reply.body THEN "lost" ELSE "none"
  /\ step' = "ended"
  /\ UNCHANGED <<reply, output, exists>>

FetchNext == OpenSite \/ FetchHeader \/ FetchBody \/ ReadStops \/ ResolveOpens \/ ResolveReads

-----------------------------------------------------------------------------
(* Properties.                                                             *)

\* update-subscriptions.sh imports the file of a fetch that exits with 0: it
\* is the body of the answer, whole and nothing else, however the answer was
\* cut into reads; a fetch that failed leaves no file.
FetchedWhole ==
  exit # "none" =>
    IF exists THEN exit = "ok" /\ output = Positions(reply.head + 1, reply.head + reply.length)
              ELSE exit = "failed" \/ output = <<>>

\* A good answer is fetched, unless the network or the disk fails.  The code
\* asks for one thing more: that the read with the end of the header does not
\* go beyond MAX_HEADER_SIZE, though it may bring a whole record of 16 KiB.
GoodAnswerIsFetched ==
  exit = "failed" /\ fault = "none" /\ Acceptable /\ reply.length = reply.body =>
    output = <<>> /\ got > HeaderMax
=============================================================================
