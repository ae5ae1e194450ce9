----------------------------- MODULE Registration -----------------------------
(***************************************************************************)
(* The registration of one connection, Me, in front of its login           *)
(* (handle_conn 143-187, handle_cap, handle_authenticate and matrix_auth   *)
(* of src/src/ircd/server.rs, ircd/session.rs, ircd/caps.rs).  The other   *)
(* connections of Sessions come registered, with any credentials.          *)
(*                                                                         *)
(* A command is handled at once, and when the registration is complete     *)
(* after it, the login begins.  A name stands for a localpart: a nick, a   *)
(* SASL user and the USER field are compared by it.                        *)
(***************************************************************************)
EXTENDS Sessions, Sequences, SequencesExt

CONSTANTS
    Me,
    ValidNicks,   \* the localparts that are valid nicks
    Supported,    \* capabilities offered
    Requests,     \* CAP REQs a client sends: sequences of tokens
    NoSasl,
    MaxCommands   \* bound: commands of Me

Token == [cap : STRING, minus : BOOLEAN, upper : BOOLEAN]

ASSUME RegistrationAssumption ==
    /\ Me \in Conns
    /\ ValidNicks \subseteq Users
    /\ Supported \subseteq STRING
    /\ Requests \subseteq Seq(Token)
    /\ MaxCommands \in Nat

VARIABLES
    reg,      \* the Registration; `caps` are the names as they were spelled
    open,     \* registration goes on
    client,   \* [caps, loggedIn]: what the client was told
    commands  \* commands so far (bound)

regVars == <<reg, open, client, commands>>
allVars == <<vars, regVars>>

Sasl == [user : Users, pass : Passwords]

Fresh == [nick |-> NoUser, user |-> "none", mxid |-> NoUser, pass |-> NoPass, caps |-> {},
          capStarted |-> FALSE, capEnded |-> FALSE, sasl |-> NoSasl, pending |-> FALSE]

RegInit ==
    /\ Init
    /\ reg = Fresh /\ open = TRUE /\ commands = 0
    /\ client = [caps |-> {}, loggedIn |-> NoSasl]

-----------------------------------------------------------------------------
\* is_complete: asked after every command.
Complete(r) ==
    /\ r.nick # NoUser /\ r.user # "none"
    /\ r.capStarted => r.capEnded
    /\ ~r.pending

\* A plausible bug: the server password wins.
PasswordServer(r) ==
    IF r.pass # NoPass THEN r.pass ELSE IF r.sasl # NoSasl THEN r.sasl.pass ELSE NoPass

\* SASL wins; an empty PASS counts as none.
Password(r) == IF r.sasl # NoSasl THEN r.sasl.pass ELSE r.pass

\* The SASL user, else a USER that looks like an mxid, else the nick.
LoginUser(r) ==
    IF r.sasl # NoSasl THEN r.sasl.user ELSE IF r.mxid # NoUser THEN r.mxid ELSE r.nick

\* The end of the loop's body: matrix_auth when complete.
Handled(r) ==
    /\ open /\ commands < MaxCommands
    /\ commands' = commands + 1
    /\ reg' = r
    /\ open' = ~Complete(r)
    /\ IF Complete(r) /\ Password(r) # NoPass
       THEN Begin(Me, LoginUser(r), Password(r))
       ELSE UNCHANGED vars

Pass(p) == Handled([reg EXCEPT !.pass = p]) /\ UNCHANGED client

\* An erroneous nick is refused; the loop goes on without the test.
Nick(n) == n \in ValidNicks /\ Handled([reg EXCEPT !.nick = n]) /\ UNCHANGED client

User(u) ==
    /\ Handled([reg EXCEPT !.user = IF u = NoUser THEN "plain" ELSE "mxid", !.mxid = u])
    /\ UNCHANGED client

CapLs  == Handled([reg EXCEPT !.capStarted = TRUE]) /\ UNCHANGED client
CapEnd == Handled([reg EXCEPT !.capEnded = TRUE]) /\ UNCHANGED client

\* A plausible bug: a minus is not told from a plus.
ApplyTokenPlus(enabled, t) ==
    IF t.cap \notin Supported THEN enabled
    ELSE enabled \cup {[cap |-> t.cap, upper |-> t.upper]}

\* apply_req: a token is matched whatever its case; it is put in as it is
\* spelled, and taken out in lower case.
ApplyToken(enabled, t) ==
    IF t.cap \notin Supported THEN enabled
    ELSE IF t.minus THEN enabled \ {[cap |-> t.cap, upper |-> FALSE]}
    ELSE enabled \cup {[cap |-> t.cap, upper |-> t.upper]}

\* has: the code asks for lower case.
Has(enabled, cap) == [cap |-> cap, upper |-> FALSE] \in enabled

\* What a client makes of an ACK.
Acked(known, t) ==
    IF t.cap \notin Supported THEN known
    ELSE IF t.minus THEN known \ {t.cap} ELSE known \cup {t.cap}

CapReq(req) ==
    /\ Handled([reg EXCEPT !.caps = FoldLeft(ApplyToken, @, req), !.capStarted = TRUE])
    /\ client' = [client EXCEPT !.caps = FoldLeft(Acked, @, req)]

-----------------------------------------------------------------------------
\* handle_authenticate.
AuthPlain ==
    /\ ~reg.pending
    /\ Handled([reg EXCEPT !.pending = TRUE])
    /\ UNCHANGED client

\* `*` at any time, another mechanism, or a payload that does not decode.
AuthFails == Handled([reg EXCEPT !.pending = FALSE]) /\ UNCHANGED client

\* The payload.  Its localpart is the nick of a client that has none.
AuthPayload(u, p) ==
    /\ reg.pending
    /\ Handled([reg EXCEPT
            !.pending = FALSE,
            !.sasl = [user |-> u, pass |-> p],
            !.nick = IF @ = NoUser /\ u \in ValidNicks THEN u ELSE @])
    /\ client' = [client EXCEPT !.loggedIn = [user |-> u, pass |-> p]]

\* QUIT, or the end of the stream.
Quit ==
    /\ open
    /\ open' = FALSE
    /\ UNCHANGED <<vars, reg, client, commands>>

Command ==
    \/ \E p \in Passwords \cup {NoPass} : Pass(p)
    \/ \E n \in Users : Nick(n)
    \/ \E u \in Users \cup {NoUser} : User(u)
    \/ CapLs \/ CapEnd
    \/ \E req \in Requests : CapReq(req)
    \/ AuthPlain \/ AuthFails
    \/ \E u \in Users, p \in Passwords : AuthPayload(u, p)
    \/ Quit

Others == \E c \in Conns \ {Me}, u \in Users, p \in Passwords : Begin(c, u, p)

RegNext ==
    \/ Command
    \/ /\ Others \/ Environment \/ \E c \in Conns : LoginStep(c)
       /\ UNCHANGED regVars

RegSpec == RegInit /\ [][RegNext]_allVars /\ Fairness

-----------------------------------------------------------------------------
\* Once the client was told "You are now logged in as", the login is for that
\* user and with the password of that exchange, whatever PASS, NICK, USER, or
\* aborted exchange came before or after (server.rs 396-455, 1949-1975).
LoggedInAs ==
    client.loggedIn # NoSasl /\ conn[Me].pc # "idle" =>
        conn[Me].user = client.loggedIn.user /\ conn[Me].pass = client.loggedIn.pass

\* The capabilities a client takes from the ACKs of all its REQs, with refused
\* tokens and minuses among them, are those the server goes by (caps.rs 66-93).
CapsAgree == client.caps = {cap \in Supported : Has(reg.caps, cap)}
=============================================================================
