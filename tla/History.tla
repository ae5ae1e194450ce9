------------------------------- MODULE History -------------------------------
(***************************************************************************)
(* One CHATHISTORY request (src/src/bridge/history.rs, and the dispatch in *)
(* src/src/ircd/server.rs 1778-1862): the pages of a room's timeline that  *)
(* are asked of the homeserver, and the list of messages made of them.     *)
(*                                                                         *)
(* The timeline is a sequence of events, in the homeserver's order, and    *)
(* grows while a request is answered.  A list of messages is a sequence of *)
(* positions in it.  The homeserver chooses how many events it puts on a   *)
(* page, and how it divides the context of an event.                       *)
(***************************************************************************)
EXTENDS Lists

CONSTANTS
    Length,       \* events of the timeline at the start
    Stamps,       \* timestamps of messages
    Limits,       \* limits a request may state
    PageSize,     \* events the homeserver puts on a page, at most (100)
    MaxPages,     \* MAX_TS_PAGES: pages of a walk from the live edge
    Failures,     \* subset of {"page"}: a request to the homeserver may fail
    MaxArrivals   \* bound: events that arrive while the request is answered

ASSUME HistoryAssumption ==
    /\ {Length, PageSize, MaxPages} \subseteq Nat \ {0}
    /\ Stamps \subseteq Nat /\ Limits \subseteq Nat \ {0}
    /\ Failures \subseteq {"page"}
    /\ MaxArrivals \in Nat

VARIABLES
    timeline,   \* events of the room: [item, ts]
    request,    \* [sub, by, at, limit]: the request as it was parsed
    pc,         \* "ask", "context", "back", "forward", "walk" or "done"
    from,       \* the token: the next event in the direction of the pages
    out,        \* the list being collected, then the answer
    pages,      \* pages of the walk so far
    edge,       \* history: length of the timeline at the first, or last, page
    failed      \* history: a request to the homeserver failed

historyVars == <<timeline, request, pc, from, out, pages, edge, failed>>

Event  == [item : {TRUE}, ts : Stamps] \cup [item : {FALSE}, ts : {0}]
Query  == [sub : {"before", "after", "latest", "between"},
           by : {"msgid", "timestamp", "any"},
           at : 0 .. Length \cup Stamps, limit : Limits]

\* Queries as a client asks them: an event there is, a time, or `*`.
Asked(q) ==
    CASE q.by = "msgid"     -> q.at \in 1 .. Length
      [] q.by = "timestamp" -> q.at \in Stamps
      [] q.by = "any"       -> q.at = 0

HistoryInit ==
    /\ timeline \in [1 .. Length -> Event]
    /\ request \in {q \in Query : Asked(q)}
    /\ pc = "ask" /\ from = 0 /\ out = <<>> /\ pages = 0
    /\ edge = 0 /\ failed = FALSE

\* item_from_event drops what is no message.
Messages == {i \in DOMAIN timeline : timeline[i].item}
Items(s) == Among(s, Messages)

\* The filter of a walk: LATEST since a time, BEFORE a time.
Keep(i) ==
    request.by = "timestamp" =>
        IF request.sub = "latest" THEN timeline[i].ts >= request.at
                                  ELSE timeline[i].ts < request.at

Kept(s) == Among(s, {i \in Messages : Keep(i)})

Up(a, b)   == [i \in 1 .. b + 1 - a |-> a + i - 1]
Down(a, b) == [i \in 1 .. a + 1 - b |-> a + 1 - i]

Truncate(s, n) == SubSeq(s, 1, IF Len(s) < n THEN Len(s) ELSE n)

\* BETWEEN asks for twice the limit.
Wanted == IF request.sub = "between" THEN 2 * request.limit ELSE request.limit

Replies(s) == pc' = "done" /\ out' = Truncate(s, request.limit)

-----------------------------------------------------------------------------
\* The room goes on.
Arrive ==
    /\ Len(timeline) < Length + MaxArrivals
    /\ \E e \in Event : timeline' = Append(timeline, e)
    /\ UNCHANGED <<request, pc, from, out, pages, edge, failed>>

\* The dispatch of the parsed query; LATEST with a msgid asks for what is
\* before the event, AFTER with `*` for the latest.
Dispatch ==
    /\ pc = "ask"
    /\ pc' = CASE request.sub = "between" /\ request.by # "msgid"     -> "done"
               [] request.sub = "after" /\ request.by = "timestamp"   -> "done"
               [] request.by = "msgid"                                -> "context"
               [] OTHER                                               -> "walk"
    /\ UNCHANGED <<timeline, request, from, out, pages, edge, failed>>

Forward == request.sub \in {"after", "between"}

\* around_msgid: /context with up to `Wanted` events, divided in two.  The
\* events before the anchor come newest first.
Context ==
    /\ pc = "context"
    /\ \E b, a \in 0 .. Wanted :
        /\ b + a <= Wanted /\ b < request.at /\ request.at + a <= Len(timeline)
        /\ out' = IF Forward THEN Items(Up(request.at + 1, request.at + a))
                             ELSE Items(Down(request.at - 1, request.at - b))
        /\ from' = IF Forward THEN request.at + a + 1 ELSE request.at - b - 1
    /\ edge' = Len(timeline)
    /\ pc' = IF Forward THEN "forward" ELSE "back"
    /\ UNCHANGED <<timeline, request, pages, failed>>

\* The list is long enough.
Enough ==
    /\ pc \in {"back", "forward"}
    /\ Len(out) >= Wanted
    /\ Replies(out)
    /\ UNCHANGED <<timeline, request, from, pages, edge, failed>>

Page == 1 .. PageSize
Least(a, b) == IF a < b THEN a ELSE b

\* A page of events before the token, newest first: put before the list, as
\* it is.  The walk ends at the start of the room, and with an empty list.
BackPage ==
    /\ pc = "back" /\ Len(out) < Wanted
    /\ \E n \in Page :
        LET last == from - Least(n, from)
            list == Items(Down(from, last + 1)) \o out
        IN  /\ from' = last
            /\ IF last > 0 /\ list # <<>>
               THEN out' = list /\ pc' = pc
               ELSE Replies(list)
    /\ UNCHANGED <<timeline, request, pages, edge, failed>>

\* A plausible bug: the token of the page is not taken up.
ForwardPageAgain ==
    /\ pc = "forward" /\ Len(out) < Wanted
    /\ \E n \in Page :
        LET next == Least(from + n, Len(timeline) + 1)
            list == out \o Items(Up(from, next - 1))
        IN  /\ IF next <= Len(timeline) /\ list # <<>>
               THEN out' = list /\ pc' = pc
               ELSE Replies(list)
    /\ edge' = Len(timeline)
    /\ UNCHANGED <<timeline, request, from, pages, failed>>

\* A page of events after the token, in order; the walk ends at the live edge,
\* and with an empty list.
ForwardPage ==
    /\ pc = "forward" /\ Len(out) < Wanted
    /\ \E n \in Page :
        LET next == Least(from + n, Len(timeline) + 1)
            list == out \o Items(Up(from, next - 1))
        IN  /\ from' = next
            /\ IF next <= Len(timeline) /\ list # <<>>
               THEN out' = list /\ pc' = pc
               ELSE Replies(list)
    /\ edge' = Len(timeline)
    /\ UNCHANGED <<timeline, request, pages, failed>>

-----------------------------------------------------------------------------
\* walk_backward: from the live edge, newest first, reversed at the end.

\* A plausible bug: the list is cut after it has been reversed.
WalkCutLate ==
    /\ pc = "walk"
    /\ pages' = pages + 1
    /\ edge' = IF pages = 0 THEN Len(timeline) ELSE edge
    /\ \E n \in Page :
        LET first == IF pages = 0 THEN Len(timeline) ELSE from
            last  == first - Least(n, first)
            list  == out \o Kept(Down(first, last + 1))
        IN  /\ from' = last
            /\ IF last > 0 /\ Len(list) < request.limit /\ pages' < MaxPages
               THEN out' = list /\ pc' = pc
               ELSE Replies(Reverse(list))
    /\ UNCHANGED <<timeline, request, failed>>

Walk ==
    /\ pc = "walk"
    /\ pages' = pages + 1
    /\ edge' = IF pages = 0 THEN Len(timeline) ELSE edge
    /\ \E n \in Page :
        LET first == IF pages = 0 THEN Len(timeline) ELSE from
            last  == first - Least(n, first)
            list  == out \o Kept(Down(first, last + 1))
        IN  /\ from' = last
            /\ IF last > 0 /\ Len(list) < request.limit /\ pages' < MaxPages
               THEN out' = list /\ pc' = pc
               ELSE pc' = "done" /\ out' = Reverse(Truncate(list, request.limit))
    /\ UNCHANGED <<timeline, request, failed>>

\* A failed context or walk makes an empty answer; a failed page of the top-up
\* leaves what there is.
Fail ==
    /\ "page" \in Failures
    /\ pc \in {"context", "walk", "back", "forward"}
    /\ pc \in {"back", "forward"} => Len(out) < Wanted
    /\ failed' = TRUE
    /\ Replies(IF pc \in {"context", "walk"} THEN <<>> ELSE out)
    /\ UNCHANGED <<timeline, request, from, pages, edge>>

-----------------------------------------------------------------------------
HistoryStep == Dispatch \/ Context \/ Enough \/ BackPage \/ ForwardPage \/ Walk

HistoryNext == HistoryStep \/ Fail \/ Arrive

\* The task that answers goes on: a request to the homeserver returns, and
\* need not fail.
HistorySpec == HistoryInit /\ [][HistoryNext]_historyVars /\ WF_historyVars(HistoryStep)

-----------------------------------------------------------------------------
Done(subs, by) == pc = "done" /\ request.sub \in subs /\ request.by \in by

\* What follows an event is answered without a gap and in order, however the
\* homeserver divides it into pages, and while events arrive: as many messages
\* as asked for, or all up to the live edge (history.rs 177-196).  Excused are
\* a page that fails and an empty answer: the code takes a first page without
\* messages for the end.
AfterExact ==
    Done({"after", "between"}, {"msgid"}) /\ ~failed /\ out # <<>> =>
        out = Truncate(Items(Up(request.at + 1, edge)), request.limit)

LastOf(s, n) == SubSeq(s, Len(s) + 1 - Least(n, Len(s)), Len(s))

\* An answer from the live edge is in order and without a gap: the newest
\* messages of the part that was walked which pass the filter, as many as
\* asked for unless the room or the pages end first (history.rs 201-255).
LatestExact ==
    Done({"before", "after", "latest"}, {"timestamp", "any"}) /\ ~failed /\ pages > 0 =>
        /\ out = LastOf(Kept(Up(from + 1, edge)), request.limit)
        /\ Len(out) = request.limit \/ from = 0 \/ pages = MaxPages

\* Every request is answered, although new events arrive and the walk around an
\* event has no bound on its pages (history.rs 156-193).
Answered == <>(pc = "done")

\* history.rs:197 "both lists returned chronological".
BeforeChronological ==
    Done({"before", "latest"}, {"msgid"}) =>
        \A i, j \in DOMAIN out : i < j => out[i] < out[j]
=============================================================================
