----------------------------- MODULE Verification -----------------------------
(***************************************************************************)
(* SAS verification on one connection (src/src/matrix/verification.rs).    *)
(*                                                                         *)
(* The hub keeps a list of flows.  Handlers of the sync append the flows   *)
(* others request and the read loop those the client starts; a driver      *)
(* looks at the list every 400 ms, moves flows on and removes those that   *)
(* have ended; the client's commands name a flow by its index, or mean the *)
(* last one.  The tasks share the mutex of the list and hold it for        *)
(* moments: one action is the code between two acquisitions or awaits.     *)
(*                                                                         *)
(* `proto` is the state of a flow in the client library, which request and *)
(* SAS objects share.  Of the lines to the client only the emojis and the  *)
(* end of a flow are kept track of; they are offered with try_send, and    *)
(* lost when the queue of lines is full.                                   *)
(***************************************************************************)
EXTENDS Lists

CONSTANTS
    Flows,        \* verification flows, by flow id
    Mine,         \* those the client starts with `verify start`
    NoFlow,
    Faults,       \* subset of {"request"}: requests of the driver may fail
    MaxCommands   \* bound: accept, match, mismatch and cancel commands

ASSUME VerificationAssumption ==
    /\ Mine \subseteq Flows
    /\ NoFlow \notin Flows
    /\ Faults \subseteq {"request"}
    /\ MaxCommands \in Nat

VARIABLES
    proto,       \* state of each flow in the client library
    inbox,       \* flows whose request event the sync is about to handle
    entries,     \* `VerificationHub::entries`: sequence of [flow, sas, shown]
    driver,      \* [pc, todo]: the pass over a snapshot, or over what ended
    reader,      \* [pc, flow, idx, sub]: the command of the read loop
    told,        \* per flow, the notices offered: sequence of "emojis" and "end"
    registered,  \* history: flows in the order they were appended
    commands     \* commands so far (bound)

tasks == <<driver, reader>>
vars  == <<proto, inbox, tasks, entries, told, registered, commands>>

Ended   == {"done", "cancelled"}
WithSas == {"started_us", "started_them", "accepted", "keys", "confirmed", "unsent"}
Active  == {"requested", "ready"} \cup WithSas

Entry == [flow : Flows, sas : BOOLEAN, shown : BOOLEAN]

ReaderIdle == [pc |-> "idle", flow |-> NoFlow, idx |-> 0, sub |-> "none"]

Listed(f) == \E i \in DOMAIN entries : entries[i].flow = f

Init ==
    /\ proto = [f \in Flows |-> "none"]
    /\ inbox = {}
    /\ entries = <<>>
    /\ driver = [pc |-> "tick", todo |-> <<>>]
    /\ reader = ReaderIdle
    /\ told = [f \in Flows |-> <<>>]
    /\ registered = <<>> /\ commands = 0

-----------------------------------------------------------------------------
\* The other party and the client library.

Becomes(f, state) == proto' = [proto EXCEPT ![f] = state]

Moves(f, from, to) ==
    /\ proto[f] \in from /\ Becomes(f, to)
    /\ UNCHANGED <<inbox, tasks, entries, told, registered, commands>>

PeerRequests(f) ==
    /\ f \notin Mine /\ proto[f] = "none"
    /\ Becomes(f, "requested")
    /\ inbox' = inbox \cup {f}
    /\ UNCHANGED <<tasks, entries, told, registered, commands>>

PeerReadies(f) == f \in Mine /\ Moves(f, {"requested"}, "ready")
PeerStarts(f)  == Moves(f, {"ready"}, "started_them")
PeerKeys(f)    == Moves(f, {"started_us", "accepted"}, "keys")
PeerDone(f)    == Moves(f, {"confirmed"}, "done")
Cancels(f)     == Moves(f, Active, "cancelled")
TakenOver(f)   == f \notin Mine /\ Moves(f, {"requested"}, "passive")

Peer == \E f \in Flows :
    \/ PeerRequests(f) \/ PeerReadies(f) \/ PeerStarts(f)
    \/ PeerDone(f) \/ Cancels(f) \/ TakenOver(f)

-----------------------------------------------------------------------------
\* notice: a try_send whose result is ignored.
Tell(f, kind) == told' = [told EXCEPT ![f] = Append(@, kind)]

\* A plausible bug: the newest flow is put first.
RegisterFront(f) ==
    IF Listed(f)
    THEN UNCHANGED <<entries, registered>>
    ELSE /\ entries' = <<[flow |-> f, sas |-> FALSE, shown |-> FALSE]>> \o entries
         /\ registered' = Append(registered, f)

\* register, under the lock: a flow that is listed is not listed again.
Register(f) ==
    IF Listed(f)
    THEN UNCHANGED <<entries, registered>>
    ELSE /\ entries' = Append(entries, [flow |-> f, sas |-> FALSE, shown |-> FALSE])
         /\ registered' = Append(registered, f)

-----------------------------------------------------------------------------
\* The handlers of the sync, to-device and in a room: the request is looked up
\* and registered.  One this client sent is not found under its own user id.

Handler == \E f \in inbox :
    /\ inbox' = inbox \ {f}
    /\ Register(f)
    /\ UNCHANGED <<proto, tasks, told, commands>>

-----------------------------------------------------------------------------
\* drive: the flows of a snapshot, one after the other, then those that ended.

Snapshot ==
    /\ driver.pc = "tick"
    /\ driver' = [pc |-> "flow", todo |-> entries]
    /\ UNCHANGED <<proto, inbox, reader, entries, told, registered, commands>>

At(pc) == driver.pc = pc /\ driver.todo # <<>>
Cur    == Head(driver.todo)
Flow   == Cur.flow

NextFlow == driver' = [pc |-> "flow", todo |-> Tail(driver.todo)]

Answer(good) == {good} \cup IF "request" \in Faults THEN {"unsent"} ELSE {}

\* A ready flow of ours: start_sas.  When the request fails the library has
\* the SAS, and the other party has not.
StartSas ==
    /\ At("flow") /\ ~Cur.sas
    /\ Flow \in Mine /\ proto[Flow] = "ready"
    /\ \E state \in Answer("started_us") :
        /\ Becomes(Flow, state)
        /\ IF state = "unsent" THEN NextFlow ELSE driver' = [driver EXCEPT !.pc = "set"]
    /\ UNCHANGED <<inbox, reader, entries, told, registered, commands>>

\* A plausible bug: the other party's start is not accepted.
FindSasUnaccepted ==
    /\ At("flow") /\ ~Cur.sas
    /\ proto[Flow] \in WithSas
    /\ driver' = [driver EXCEPT !.pc = "set"]
    /\ UNCHANGED <<inbox, proto, reader, entries, told, registered, commands>>

\* Any other flow with a SAS: it is accepted unless we requested the flow.
FindSas ==
    /\ At("flow") /\ ~Cur.sas
    /\ proto[Flow] \in WithSas
    /\ driver' = [driver EXCEPT !.pc = "set"]
    /\ IF Flow \notin Mine /\ proto[Flow] = "started_them"
       THEN \E state \in Answer("accepted") : Becomes(Flow, state)
       ELSE UNCHANGED proto
    /\ UNCHANGED <<inbox, reader, entries, told, registered, commands>>

Mark(field) == [i \in DOMAIN entries |->
    IF entries[i].flow # Flow THEN entries[i]
    ELSE IF field = "sas" THEN [entries[i] EXCEPT !.sas = TRUE]
    ELSE [entries[i] EXCEPT !.shown = TRUE]]

SetSas ==
    /\ At("set")
    /\ entries' = Mark("sas") /\ NextFlow
    /\ UNCHANGED <<proto, inbox, reader, told, registered, commands>>

\* The row of emojis and the question; both lines count as one notice.
ShowEmojis ==
    /\ At("flow") /\ Cur.sas /\ ~Cur.shown
    /\ proto[Flow] = "keys"
    /\ Tell(Flow, "emojis")
    /\ driver' = [driver EXCEPT !.pc = "shown"]
    /\ UNCHANGED <<proto, inbox, reader, entries, registered, commands>>

\* A plausible bug: the mark that the emojis were shown is not made.
SetShownNot ==
    /\ At("shown")
    /\ NextFlow
    /\ UNCHANGED <<proto, inbox, reader, entries, told, registered, commands>>

SetEmojisShown ==
    /\ At("shown")
    /\ entries' = Mark("shown") /\ NextFlow
    /\ UNCHANGED <<proto, inbox, reader, told, registered, commands>>

Skip ==
    /\ At("flow")
    /\ IF Cur.sas
       THEN Cur.shown \/ proto[Flow] # "keys"
       ELSE proto[Flow] \notin WithSas /\ ~(Flow \in Mine /\ proto[Flow] = "ready")
    /\ NextFlow
    /\ UNCHANGED <<proto, inbox, reader, entries, told, registered, commands>>

\* The entries of some flows.
Where(es, flows) == Among(es, [flow : flows, sas : BOOLEAN, shown : BOOLEAN])

EndedNow == {f \in Flows : proto[f] \in Ended}

Passing(pc, todo) == [pc |-> IF todo = <<>> THEN "tick" ELSE pc, todo |-> todo]

\* A plausible bug: flows that were cancelled are not looked for.
FinishedDone ==
    /\ driver.pc = "flow" /\ driver.todo = <<>>
    /\ driver' = Passing("end", Where(entries, {f \in Flows : proto[f] = "done"}))
    /\ UNCHANGED <<proto, inbox, reader, entries, told, registered, commands>>

\* The flows that have ended by now, passive ones not among them.
Finished ==
    /\ driver.pc = "flow" /\ driver.todo = <<>>
    /\ driver' = Passing("end", Where(entries, EndedNow))
    /\ UNCHANGED <<proto, inbox, reader, entries, told, registered, commands>>

EndNotice ==
    /\ At("end")
    /\ Tell(Flow, "end")
    /\ driver' = [driver EXCEPT !.pc = "forget"]
    /\ UNCHANGED <<proto, inbox, reader, entries, registered, commands>>

Forget ==
    /\ At("forget")
    /\ entries' = Where(entries, Flows \ ({Flow} \cap EndedNow))
    /\ driver' = Passing("end", Tail(driver.todo))
    /\ UNCHANGED <<proto, inbox, reader, told, registered, commands>>

Driver ==
    \/ Snapshot \/ StartSas \/ FindSas \/ SetSas \/ ShowEmojis \/ SetEmojisShown \/ Skip
    \/ Finished \/ EndNotice \/ Forget

-----------------------------------------------------------------------------
\* The read loop: `verify start`, and the commands on a flow of the list.

\* The request is sent, then registered.
StartFlow(f) ==
    /\ reader.pc = "idle"
    /\ f \in Mine /\ proto[f] = "none"
    /\ Becomes(f, "requested")
    /\ reader' = [reader EXCEPT !.pc = "register", !.flow = f]
    /\ UNCHANGED <<inbox, driver, entries, told, registered, commands>>

ReaderRegisters ==
    /\ reader.pc = "register"
    /\ Register(reader.flow)
    /\ reader' = ReaderIdle
    /\ UNCHANGED <<proto, inbox, driver, told, commands>>

\* pick: the flow at the index, which a command without one takes as the last.
Pick(sub) ==
    /\ reader.pc = "idle" /\ commands < MaxCommands
    /\ commands' = commands + 1
    /\ \E i \in DOMAIN entries :
        reader' = [pc |-> "picked", flow |-> entries[i].flow, idx |-> i, sub |-> sub]
    /\ UNCHANGED <<proto, inbox, driver, entries, told, registered>>

\* with_sas: the index again, in the list as it is now.
SasAt(i) == IF i \in DOMAIN entries /\ entries[i].sas THEN entries[i].flow ELSE NoFlow

\* The flow a picked command acts on.
Target ==
    IF reader.sub = "accept" THEN reader.flow
    ELSE IF reader.sub = "cancel" /\ SasAt(reader.idx) = NoFlow THEN reader.flow
    ELSE SasAt(reader.idx)

\* What the library makes of it: nothing when the flow is not in that state.
Result(sub) ==
    CASE sub = "accept"   -> [from |-> {"requested"} , to |-> "ready"]
      [] sub = "match"    -> [from |-> {"keys"}, to |-> "confirmed"]
      [] sub = "mismatch" -> [from |-> WithSas, to |-> "cancelled"]
      [] sub = "cancel"   -> [from |-> Active, to |-> "cancelled"]

Act ==
    /\ reader.pc = "picked"
    /\ reader' = ReaderIdle
    /\ IF /\ Target # NoFlow
          /\ proto[Target] \in Result(reader.sub).from
          /\ reader.sub = "accept" => Target \notin Mine
       THEN Becomes(Target, Result(reader.sub).to)
       ELSE UNCHANGED proto
    /\ UNCHANGED <<inbox, driver, entries, told, registered, commands>>

Pending == ReaderRegisters \/ Act

Reader ==
    \/ Pending
    \/ \E f \in Flows : StartFlow(f)
    \/ \E sub \in {"accept", "match", "mismatch", "cancel"} : Pick(sub)

-----------------------------------------------------------------------------
Keys == \E f \in Flows : PeerKeys(f)

Next == Peer \/ Keys \/ Handler \/ Driver \/ Reader

\* The tasks go on; a party that has been sent a start or an accept answers
\* with its key.
Fairness ==
    /\ WF_vars(Handler) /\ WF_vars(Driver) /\ WF_vars(Pending)
    /\ \A f \in Flows : WF_vars(PeerKeys(f))

Spec == Init /\ [][Next]_vars /\ Fairness

-----------------------------------------------------------------------------
Rank(f) == CHOOSE i \in DOMAIN registered : registered[i] = f

\* A command that looks its index up twice acts on the flow it picked; only
\* when that flow or one before it has been forgotten in between, on a flow
\* registered later, and never on an earlier one (verification.rs 287-296,
\* 367-405).
ActsOnPickedOrLater ==
    [][reader.pc = "picked" /\ reader'.pc = "idle" =>
        \A g \in Flows : proto'[g] # proto[g] /\ g # reader.flow =>
            /\ Rank(g) > Rank(reader.flow)
            /\ \E i \in 1 .. Rank(reader.flow) : ~Listed(registered[i])]_vars

\* The emojis of a flow are shown once and its end is told once, and after the
\* end there are no emojis, although the driver works on a snapshot and the
\* flow goes on, ends or is commanded meanwhile (verification.rs 162-271).
ToldOnce ==
    \A f \in Flows : \A i, j \in DOMAIN told[f] : i < j =>
        told[f][i] = "emojis" /\ told[f][j] = "end"

Told(f, kind) == \E i \in DOMAIN told[f] : told[f][i] = kind

\* A listed flow gets its emojis, unless it ends or is confirmed: one of ours
\* when the other party is ready, and one of the other party's when it starts.
\* Excused are a request of ours that got lost, which is not tried again, and
\* a flow of ours the other party starts, which nobody accepts
\* (verification.rs 184-238).
EmojisShown ==
    \A f \in Flows :
        (/\ Listed(f)
         /\ \/ f \in Mine /\ proto[f] \in {"ready", "started_us"}
            \/ f \notin Mine /\ proto[f] \in {"started_them", "accepted"}
            \/ proto[f] = "keys")
        ~> \/ Told(f, "emojis")
           \/ proto[f] \in Ended \cup {"confirmed", "unsent"}
           \/ f \in Mine /\ proto[f] = "started_them"

\* A flow that has ended leaves the list, and the client is told, or the
\* notice is lost to a full queue (verification.rs 241-271).
EndedForgotten ==
    \A f \in Flows : Listed(f) /\ proto[f] \in Ended ~> ~Listed(f) /\ Told(f, "end")
=============================================================================
