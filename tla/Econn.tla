------------------------------- MODULE Econn --------------------------------
(***************************************************************************)
(* The econn signalling state machine of src/src/econn/econn.c, one       *)
(* record per endpoint taking part in a call, and the transport that      *)
(* carries the encoded messages between the endpoints.                    *)
(*                                                                         *)
(* Every entry point of econn.c (an API call of the application, a timer  *)
(* handler, econn_recv_message) runs to completion on the single re event *)
(* loop, so each one is one atomic action here.  SDP and props are opaque *)
(* to econn and are left out; a message keeps its type, its resp flag,    *)
(* the sender's session id and the sender's identity.                     *)
(***************************************************************************)
EXTENDS Naturals, Sequences, SequencesExt

CONSTANTS
    Endpoints,      \* the econn records (one per device in the call)
    Ident,          \* Ident[e] = <<userid, clientid>> of e, as ranks
    NoId,           \* an unset clientid_remote / sessid_remote ("")
    TimeoutSetup,   \* conf.timeout_setup in ms; only 0 vs. not 0 matters
    FailingSends,   \* message types whose transp_send may return an error
    AppErrors,      \* values the application passes to econn_set_error
    AppAfterClose,  \* does the application keep using a record after closeh
    UpdateAnyState, \* does the application call econn_update_req outside
                    \* ANSWERED / DATACHAN_ESTABLISHED (the code lets it)
    Reorder,        \* may the transport deliver out of order
    Lossy,          \* may the transport lose a message
    MaxInFlight,    \* bound on undelivered messages per link (model bound)
    Duplicating,    \* may the transport deliver a message twice
    MaxOffers,      \* bound on the SDP offers made on one record
    MaxCalls        \* bound on the records one endpoint allocates in turn

MsgTypes == {"SETUP", "UPDATE", "CANCEL", "HANGUP", "PROPSYNC"}

ASSUME
    /\ Ident \in [Endpoints -> Nat \X Nat]
    /\ \A a, b \in Endpoints : a # b => Ident[a] # Ident[b]
    /\ NoId \notin Endpoints
    /\ TimeoutSetup \in Nat
    /\ FailingSends \subseteq MsgTypes
    /\ "OK" \in AppErrors
    /\ AppAfterClose \in BOOLEAN /\ UpdateAnyState \in BOOLEAN
    /\ Reorder \in BOOLEAN /\ Lossy \in BOOLEAN
    /\ MaxInFlight \in Nat \ {0}
    /\ Duplicating \in BOOLEAN /\ MaxOffers \in Nat \ {0}
    /\ MaxCalls \in Nat \ {0}

States == {"IDLE", "PENDING_OUTGOING", "PENDING_INCOMING",
           "CONFLICT_RESOLUTION", "ANSWERED", "DATACHAN_ESTABLISHED",
           "UPDATE_SENT", "UPDATE_RECV", "HANGUP_SENT", "HANGUP_RECV",
           "TERMINATING"}

\* States in which the record waits for the peer or the application.
Waiting == {"PENDING_OUTGOING", "PENDING_INCOMING", "CONFLICT_RESOLUTION",
            "UPDATE_SENT", "UPDATE_RECV", "HANGUP_SENT"}

\* The session id econn_alloc generates for a record (rand_str): the
\* endpoint and the number of the record among those it allocated.
Sessions == Endpoints \X (1..MaxCalls)

\* An SDP offer: the session of the record whose application made it and
\* its number.  A SETUP / UPDATE request carries an offer, a response the
\* offer it answers; the other types carry none.
Offers == Sessions \X (1..MaxOffers)
NoOffer == <<NoId, 0>>

Msg == [type : MsgTypes, resp : BOOLEAN, sessid : Sessions, src : Endpoints,
        sdp : Offers \cup {NoOffer}]

Links == {l \in Endpoints \X Endpoints : l[1] # l[2]}

Errors == {"ETIMEDOUT", "ECANCELED", "ETRANSP"} \cup AppErrors

\* tmr_local is armed with one of three handlers, or not running.
Timers == {"none", "local", "term", "cancel"}

Callbacks == {"none", "connh", "answerh", "update_reqh", "update_resph",
              "closeh"}

VARIABLES
    state,            \* conn->state
    dir,              \* conn->dir
    clientid_remote,  \* conn->clientid_remote
    sessid_local,     \* conn->sessid_local of the endpoint's current record
    sessid_remote,    \* conn->sessid_remote
    conflict,         \* conn->conflict: 1 winner, -1 loser, 0 none
    setup_err,        \* conn->setup_err
    err,              \* conn->err, set by econn_set_error
    tmr,              \* handler tmr_local is running with
    closeh,           \* conn->closeh is still set
    net,              \* net[<<s, d>>]: messages sent by s, not yet at d
    lastcb,           \* history: the last callback raised on a record
    nclose,           \* history: how often closeh was called
    role,             \* history: "offerer" / "answerer" of the last
                      \* SDP exchange that brought a record to ANSWERED
    offers,           \* application: SDP offers it made so far
    given,            \* application: the remote offer it was last handed
                      \* (connh, answerh in glare, update_reqh) to answer
    applied,          \* application: the offer the last answer it was
                      \* handed (answerh, update_resph) answers
    hungup            \* history: the record was closed by a HANGUP

connVars == <<state, dir, clientid_remote, sessid_local, sessid_remote,
              conflict, setup_err, err, tmr, closeh>>
sdpVars == <<offers, given, applied>>
histVars == <<lastcb, nclose, role, hungup, sdpVars>>
vars == <<connVars, net, histVars>>

\* Everything except the network and clientid_remote.
restVars == <<state, dir, sessid_local, sessid_remote, conflict, setup_err,
              err, tmr, closeh, histVars>>

TypeOK ==
    /\ state \in [Endpoints -> States]
    /\ dir \in [Endpoints -> {"UNKNOWN", "INCOMING", "OUTGOING"}]
    /\ clientid_remote \in [Endpoints -> Endpoints \cup {NoId}]
    /\ sessid_local \in [Endpoints -> Sessions]
    /\ sessid_remote \in [Endpoints -> Sessions \cup {NoId}]
    /\ conflict \in [Endpoints -> {-1, 0, 1}]
    /\ setup_err \in [Endpoints -> Errors]
    /\ err \in [Endpoints -> AppErrors]
    /\ tmr \in [Endpoints -> Timers]
    /\ closeh \in [Endpoints -> BOOLEAN]
    /\ net \in [Links -> Seq(Msg)]
    /\ lastcb \in [Endpoints -> Callbacks]
    /\ nclose \in [Endpoints -> Nat]
    /\ role \in [Endpoints -> {"none", "offerer", "answerer"}]
    /\ offers \in [Endpoints -> 0..MaxOffers]
    /\ given \in [Endpoints -> Offers \cup {NoOffer}]
    /\ applied \in [Endpoints -> Offers \cup {NoOffer}]
    /\ hungup \in [Endpoints -> BOOLEAN]

\* econn_alloc: a zeroed record, a fresh session id, closeh registered.
Init ==
    /\ sessid_local = [e \in Endpoints |-> <<e, 1>>]
    /\ state = [e \in Endpoints |-> "IDLE"]
    /\ dir = [e \in Endpoints |-> "UNKNOWN"]
    /\ clientid_remote = [e \in Endpoints |-> NoId]
    /\ sessid_remote = [e \in Endpoints |-> NoId]
    /\ conflict = [e \in Endpoints |-> 0]
    /\ setup_err = [e \in Endpoints |-> "OK"]
    /\ err = [e \in Endpoints |-> "OK"]
    /\ tmr = [e \in Endpoints |-> "none"]
    /\ closeh = [e \in Endpoints |-> TRUE]
    /\ net = [l \in Links |-> <<>>]
    /\ lastcb = [e \in Endpoints |-> "none"]
    /\ nclose = [e \in Endpoints |-> 0]
    /\ role = [e \in Endpoints |-> "none"]
    /\ offers = [e \in Endpoints |-> 0]
    /\ given = [e \in Endpoints |-> NoOffer]
    /\ applied = [e \in Endpoints |-> NoOffer]
    /\ hungup = [e \in Endpoints |-> FALSE]

-----------------------------------------------------------------------------
(* Helpers                                                                 *)

\* econn_iswinner (outside src/): a strict order on <<userid, clientid>>,
\* compared lexicographically; the greater identity wins the glare.
econn_iswinner(self, peer) ==
    LET s == Ident[self]  p == Ident[peer]
    IN  s[1] > p[1] \/ (s[1] = p[1] /\ s[2] > p[2])

\* Mutant: the message is stamped with conn->sessid_remote instead of
\* conn->sessid_local.
econn_message_init_remote(t, r, e) ==
    [type |-> t, resp |-> r, sessid |-> sessid_remote[e], src |-> e,
     sdp |-> NoOffer]

\* econn_message_init plus msg.resp: a message sent by record e.
econn_message_init(t, r, e) ==
    [type |-> t, resp |-> r, sessid |-> sessid_local[e], src |-> e,
     sdp |-> NoOffer]

\* econn_send_setup: the SETUP / UPDATE message carries the SDP it is given.
SetupMsg(t, r, e, o) == [econn_message_init(t, r, e) EXCEPT !.sdp = o]

\* The outcomes transp_send may have for a message of type t.
SendResults(t) == IF t \in FailingSends THEN BOOLEAN ELSE {TRUE}

\* transp_send: the transport hands m to every other endpoint, or fails
\* (ok = FALSE) and sends nothing.
transp_send(e, m, n, ok) ==
    IF ok THEN [l \in Links |-> IF l[1] = e THEN Append(n[l], m) ELSE n[l]]
          ELSE n

\* send_cancel / send_hangup: a CANCEL request, a HANGUP of the given resp
\* flag, stamped with conn->sessid_local; the result is transp_send's.
send_cancel(e, n, ok) ==
    transp_send(e, econn_message_init("CANCEL", FALSE, e), n, ok)
send_hangup(e, r, n, ok) ==
    transp_send(e, econn_message_init("HANGUP", r, e), n, ok)

\* econn_send_setup: an UPDATE when update is set, else a SETUP, carrying
\* the SDP o; on a send error it sets setup_err and TERMINATING
\* (SendSetupFailed, below).
econn_send_setup(e, r, o, update, n, ok) ==
    transp_send(e, SetupMsg(IF update THEN "UPDATE" ELSE "SETUP", r, e, o), n, ok)

\* The application does not call into a record it destroyed in closeh,
\* and it stops when the transport has MaxInFlight unsent messages.
AppMayCall(e) ==
    /\ closeh[e] \/ AppAfterClose
    /\ \A l \in Links : l[1] = e => Len(net[l]) < MaxInFlight

\* A callback of the application is invoked on record e.
Notify(e, cb) ==
    /\ lastcb' = [lastcb EXCEPT ![e] = cb]
    /\ nclose' = [nclose EXCEPT ![e] = IF cb = "closeh" THEN @ + 1 ELSE @]

\* The error path of econn_send_setup: transp_send failed.
SendSetupFailed(e) ==
    /\ setup_err' = [setup_err EXCEPT ![e] = "ETRANSP"]
    /\ state' = [state EXCEPT ![e] = "TERMINATING"]

\* Mutant: econn_close leaves tmr_local running.
econn_close_keeps_timer(e, st, code, n) ==
    /\ UNCHANGED tmr
    /\ setup_err' = [setup_err EXCEPT ![e] = code]
    /\ \E ok \in SendResults("CANCEL") :
          net' = IF st = "PENDING_OUTGOING"
                 THEN send_cancel(e, n, ok)
                 ELSE n
    /\ state' = [state EXCEPT ![e] = "TERMINATING"]
    /\ closeh' = [closeh EXCEPT ![e] = FALSE]
    /\ IF closeh[e] THEN Notify(e, "closeh") ELSE UNCHANGED <<lastcb, nclose>>

\* Mutant: econn_close calls closeh without clearing conn->closeh first.
econn_close_keeps_handler(e, st, code, n) ==
    /\ tmr' = [tmr EXCEPT ![e] = "none"]
    /\ setup_err' = [setup_err EXCEPT ![e] = code]
    /\ \E ok \in SendResults("CANCEL") :
          net' = IF st = "PENDING_OUTGOING"
                 THEN send_cancel(e, n, ok)
                 ELSE n
    /\ state' = [state EXCEPT ![e] = "TERMINATING"]
    /\ UNCHANGED closeh
    /\ IF closeh[e] THEN Notify(e, "closeh") ELSE UNCHANGED <<lastcb, nclose>>

\* Mutant: econn_close calls closeh only for an error (if (err) closeh()).
econn_close_only_on_error(e, st, code, n) ==
    /\ tmr' = [tmr EXCEPT ![e] = "none"]
    /\ setup_err' = [setup_err EXCEPT ![e] = code]
    /\ \E ok \in SendResults("CANCEL") :
          net' = IF st = "PENDING_OUTGOING"
                 THEN send_cancel(e, n, ok)
                 ELSE n
    /\ state' = [state EXCEPT ![e] = "TERMINATING"]
    /\ closeh' = [closeh EXCEPT ![e] = closeh[e] /\ code = "OK"]
    /\ IF closeh[e] /\ code # "OK" THEN Notify(e, "closeh")
                                   ELSE UNCHANGED <<lastcb, nclose>>

\* econn_close(conn, code), called when conn->state is st and the network
\* is n: cancel the timer, save the error, send a best-effort CANCEL from
\* PENDING_OUTGOING, go to TERMINATING, clear closeh and call it last.
econn_close(e, st, code, n) ==
    /\ tmr' = [tmr EXCEPT ![e] = "none"]
    /\ setup_err' = [setup_err EXCEPT ![e] = code]
    /\ \E ok \in SendResults("CANCEL") :
          net' = IF st = "PENDING_OUTGOING"
                 THEN send_cancel(e, n, ok)
                 ELSE n
    /\ state' = [state EXCEPT ![e] = "TERMINATING"]
    /\ closeh' = [closeh EXCEPT ![e] = FALSE]
    /\ IF closeh[e] THEN Notify(e, "closeh") ELSE UNCHANGED <<lastcb, nclose>>

-----------------------------------------------------------------------------
(* Timer handlers: each ends in econn_close                               *)

\* tmr_local_handler: the setup timer expired.
tmr_local_handler(e) ==
    /\ tmr[e] = "local"
    /\ econn_close(e, state[e], "ETIMEDOUT", net)
    /\ UNCHANGED <<dir, clientid_remote, sessid_remote, conflict,
                   sessid_local, err, role, hungup, sdpVars>>

\* tmr_term_handler: no HANGUP response came after our HANGUP request.
tmr_term_handler(e) ==
    /\ tmr[e] = "term"
    /\ econn_close(e, state[e], err[e], net)
    /\ UNCHANGED <<dir, clientid_remote, sessid_remote, conflict,
                   sessid_local, err, role, hungup, sdpVars>>

\* tmr_cancel_handler: the 1 ms timer econn_end arms to close on the next
\* tick.
tmr_cancel_handler(e) ==
    /\ tmr[e] = "cancel"
    /\ econn_close(e, state[e], err[e], net)
    /\ UNCHANGED <<dir, clientid_remote, sessid_remote, conflict,
                   sessid_local, err, role, hungup, sdpVars>>

-----------------------------------------------------------------------------
(* The API the application calls                                          *)

\* Mutant: the setup timer is never started.
StartSetupTimer_missing(e) == UNCHANGED tmr

\* The tail of econn_start / econn_update_req: with timeout_setup = 0 return
\* EPROTO, else tmr_start(tmr_local, timeout_setup, tmr_local_handler).
StartSetupTimer(e) ==
    tmr' = IF TimeoutSetup = 0 THEN tmr ELSE [tmr EXCEPT ![e] = "local"]

\* The last SDP offer the application made on the record of e.
LastOffer(e) == <<sessid_local[e], offers[e]>>

\* The application makes a new SDP offer (bounded by MaxOffers).
NewOffer(e) ==
    /\ offers[e] < MaxOffers
    /\ offers' = [offers EXCEPT ![e] = @ + 1]

\* econn_start: from IDLE or PENDING_OUTGOING, send SETUP(req), then arm
\* the setup timer unless timeout_setup is 0 (then return EPROTO).  From
\* IDLE the application offers a new SDP; from PENDING_OUTGOING it retries
\* with the offer it made.
econn_start(e) ==
    /\ AppMayCall(e)
    /\ \/ state[e] = "IDLE" /\ NewOffer(e)
       \/ state[e] = "PENDING_OUTGOING" /\ UNCHANGED offers
    /\ dir' = [dir EXCEPT ![e] = "OUTGOING"]
    /\ \E ok \in SendResults("SETUP") :
          /\ net' = econn_send_setup(e, FALSE, <<sessid_local[e], offers'[e]>>,
                                      FALSE, net, ok)
          /\ IF ok
             THEN /\ state' = [state EXCEPT ![e] = "PENDING_OUTGOING"]
                  /\ StartSetupTimer(e)
                  /\ UNCHANGED setup_err
             ELSE /\ SendSetupFailed(e)
                  /\ UNCHANGED tmr
    /\ UNCHANGED <<clientid_remote, sessid_remote, conflict, sessid_local,
                   err, closeh, lastcb, nclose, role, hungup, given, applied>>

\* econn_answer: from PENDING_INCOMING or CONFLICT_RESOLUTION, cancel the
\* timer and send SETUP(resp).
econn_answer(e) ==
    /\ AppMayCall(e)
    /\ state[e] \in {"PENDING_INCOMING", "CONFLICT_RESOLUTION"}
    /\ tmr' = [tmr EXCEPT ![e] = "none"]
    /\ \E ok \in SendResults("SETUP") :
          /\ net' = econn_send_setup(e, TRUE, given[e], FALSE, net, ok)
          /\ IF ok
             THEN /\ state' = [state EXCEPT ![e] = "ANSWERED"]
                  /\ role' = [role EXCEPT ![e] = "answerer"]
                  /\ UNCHANGED setup_err
             ELSE /\ SendSetupFailed(e)
                  /\ UNCHANGED role
    /\ UNCHANGED <<dir, clientid_remote, sessid_remote, conflict,
                   sessid_local, err, closeh, lastcb, nclose, hungup, sdpVars>>

\* econn_update_req: in ANY state (the state check is a no-op), go to
\* UPDATE_SENT, send UPDATE(req) and arm the setup timer.  Unless
\* UpdateAnyState, the application keeps to the documented precondition.
econn_update_req(e) ==
    /\ AppMayCall(e)
    /\ UpdateAnyState \/ state[e] \in {"ANSWERED", "DATACHAN_ESTABLISHED"}
    /\ NewOffer(e)
    /\ \E ok \in SendResults("UPDATE") :
          /\ net' = econn_send_setup(e, FALSE, <<sessid_local[e], offers'[e]>>,
                                      TRUE, net, ok)
          /\ IF ok
             THEN /\ state' = [state EXCEPT ![e] = "UPDATE_SENT"]
                  /\ StartSetupTimer(e)
                  /\ UNCHANGED setup_err
             ELSE /\ SendSetupFailed(e)
                  /\ UNCHANGED tmr
    /\ UNCHANGED <<dir, clientid_remote, sessid_remote, conflict,
                   sessid_local, err, closeh, lastcb, nclose, role, hungup, given,
                   applied>>

\* econn_update_resp: from UPDATE_RECV, cancel the timer, send
\* UPDATE(resp), go back to ANSWERED.
econn_update_resp(e) ==
    /\ AppMayCall(e)
    /\ state[e] = "UPDATE_RECV"
    /\ tmr' = [tmr EXCEPT ![e] = "none"]
    /\ \E ok \in SendResults("UPDATE") :
          /\ net' = econn_send_setup(e, TRUE, given[e], TRUE, net, ok)
          /\ IF ok
             THEN /\ state' = [state EXCEPT ![e] = "ANSWERED"]
                  /\ role' = [role EXCEPT ![e] = "answerer"]
                  /\ UNCHANGED setup_err
             ELSE /\ SendSetupFailed(e)
                  /\ UNCHANGED role
    /\ UNCHANGED <<dir, clientid_remote, sessid_remote, conflict,
                   sessid_local, err, closeh, lastcb, nclose, hungup, sdpVars>>

\* econn_end: the termination table; in any other state it only warns.
econn_end(e) ==
    /\ AppMayCall(e)
    /\ \/ /\ state[e] = "PENDING_INCOMING"
          /\ state' = [state EXCEPT ![e] = "TERMINATING"]
          /\ tmr' = [tmr EXCEPT ![e] = "cancel"]
          /\ UNCHANGED net
       \/ /\ state[e] \in {"PENDING_OUTGOING", "ANSWERED", "CONFLICT_RESOLUTION"}
          /\ \E ok \in SendResults("CANCEL") :
                net' = send_cancel(e, net, ok)
          /\ state' = [state EXCEPT ![e] = "TERMINATING"]
          /\ tmr' = [tmr EXCEPT ![e] = "cancel"]
       \/ /\ state[e] = "DATACHAN_ESTABLISHED"
          /\ \E ok \in SendResults("HANGUP") :
                net' = send_hangup(e, FALSE, net, ok)
          /\ state' = [state EXCEPT ![e] = "HANGUP_SENT"]
          /\ tmr' = [tmr EXCEPT ![e] = "term"]
    /\ UNCHANGED <<dir, clientid_remote, sessid_remote, conflict,
                   sessid_local, setup_err, err, closeh, histVars>>

\* econn_send_propsync: only in DATACHAN_ESTABLISHED; no state change.
econn_send_propsync(e) ==
    /\ AppMayCall(e)
    /\ state[e] = "DATACHAN_ESTABLISHED"
    /\ \E r \in BOOLEAN, ok \in SendResults("PROPSYNC") :
          net' = transp_send(e, econn_message_init("PROPSYNC", r, e), net, ok)
    /\ UNCHANGED <<connVars, histVars>>

\* Mutant: the state check is dropped; any state becomes DATACHAN_ESTABLISHED.
econn_set_datachan_established_unguarded(e) ==
    /\ AppMayCall(e)
    /\ state' = [state EXCEPT ![e] = "DATACHAN_ESTABLISHED"]
    /\ UNCHANGED <<dir, clientid_remote, sessid_remote, conflict,
                   sessid_local, setup_err, err, tmr, closeh, net, histVars>>

\* econn_set_datachan_established: ANSWERED -> DATACHAN_ESTABLISHED; in any
\* other state it only warns.
econn_set_datachan_established(e) ==
    /\ AppMayCall(e)
    /\ state[e] = "ANSWERED"
    /\ state' = [state EXCEPT ![e] = "DATACHAN_ESTABLISHED"]
    /\ UNCHANGED <<dir, clientid_remote, sessid_remote, conflict,
                   sessid_local, setup_err, err, tmr, closeh, net, histVars>>

\* econn_set_error: the error the term and cancel timers close with.
econn_set_error(e) ==
    /\ AppMayCall(e)
    /\ \E x \in AppErrors \ {err[e]} : err' = [err EXCEPT ![e] = x]
    /\ UNCHANGED <<state, dir, clientid_remote, sessid_remote, conflict,
                   sessid_local, setup_err, tmr, closeh, net, histVars>>

\* econn_destructor: tmr_cancel(&conn->tmr_local); the strings it frees
\* and the magic it clears are not modelled.
econn_destructor(e) == tmr' = [tmr EXCEPT ![e] = "none"]

\* The application destroys the record of e after its closeh (spec 4.4:
\* "the application is expected to destroy the record") and, for the next
\* call, allocates a new one with econn_alloc: zeroed fields, closeh
\* registered and a fresh sessid_local.  Messages of the old record still
\* in flight reach the new one: the transport addresses endpoints.
NewCall(e) ==
    /\ nclose[e] > 0
    /\ sessid_local[e][2] < MaxCalls
    /\ econn_destructor(e)
    /\ sessid_local' = [sessid_local EXCEPT ![e] = <<e, @[2] + 1>>]
    /\ state' = [state EXCEPT ![e] = "IDLE"]
    /\ dir' = [dir EXCEPT ![e] = "UNKNOWN"]
    /\ clientid_remote' = [clientid_remote EXCEPT ![e] = NoId]
    /\ sessid_remote' = [sessid_remote EXCEPT ![e] = NoId]
    /\ conflict' = [conflict EXCEPT ![e] = 0]
    /\ setup_err' = [setup_err EXCEPT ![e] = "OK"]
    /\ err' = [err EXCEPT ![e] = "OK"]
    /\ closeh' = [closeh EXCEPT ![e] = TRUE]
    /\ lastcb' = [lastcb EXCEPT ![e] = "none"]
    /\ nclose' = [nclose EXCEPT ![e] = 0]
    /\ role' = [role EXCEPT ![e] = "none"]
    /\ offers' = [offers EXCEPT ![e] = 0]
    /\ given' = [given EXCEPT ![e] = NoOffer]
    /\ applied' = [applied EXCEPT ![e] = NoOffer]
    /\ hungup' = [hungup EXCEPT ![e] = FALSE]
    /\ UNCHANGED net

-----------------------------------------------------------------------------
(* econn_recv_message: record e handles message m; n is the network with  *)
(* m already taken off it.                                                *)

\* A message that is logged and dropped: only the network changes.
Dropped(n) == net' = n /\ UNCHANGED <<connVars, histVars>>

\* handle_setup_request (clientid_remote already set by recv_setup).
handle_setup_request(e, m, n) ==
    /\ net' = n
    /\ \/ /\ state[e] = "IDLE"
          /\ state' = [state EXCEPT ![e] = "PENDING_INCOMING"]
          /\ dir' = [dir EXCEPT ![e] = "INCOMING"]
          /\ sessid_remote' = [sessid_remote EXCEPT ![e] = m.sessid]
          /\ tmr' = [tmr EXCEPT ![e] = "local"]
          /\ Notify(e, "connh")
          /\ given' = [given EXCEPT ![e] = m.sdp]
          /\ UNCHANGED <<conflict, sessid_local, setup_err, err, closeh, role, hungup,
                         offers, applied>>
       \/ /\ state[e] = "PENDING_OUTGOING"
          /\ sessid_remote' = [sessid_remote EXCEPT ![e] = m.sessid]
          /\ IF econn_iswinner(e, m.src)
             THEN /\ conflict' = [conflict EXCEPT ![e] = 1]
                  /\ UNCHANGED <<state, lastcb, nclose, given>>
             ELSE /\ conflict' = [conflict EXCEPT ![e] = -1]
                  /\ state' = [state EXCEPT ![e] = "CONFLICT_RESOLUTION"]
                  /\ Notify(e, "answerh")
                  /\ given' = [given EXCEPT ![e] = m.sdp]
          /\ UNCHANGED <<dir, sessid_local, setup_err, err, tmr, closeh, role, hungup,
                         offers, applied>>
       \/ /\ state[e] \notin {"IDLE", "PENDING_OUTGOING"}
          /\ UNCHANGED restVars

\* handle_setup_response (clientid_remote already set by recv_setup).
handle_setup_response(e, m, n) ==
    /\ net' = n
    /\ IF state[e] \in {"PENDING_OUTGOING", "CONFLICT_RESOLUTION"}
       THEN /\ tmr' = [tmr EXCEPT ![e] = "none"]
            /\ state' = [state EXCEPT ![e] = "ANSWERED"]
            /\ sessid_remote' = [sessid_remote EXCEPT ![e] = m.sessid]
            /\ Notify(e, "answerh")
            /\ role' = [role EXCEPT ![e] = "offerer"]
            /\ applied' = [applied EXCEPT ![e] = m.sdp]
            /\ UNCHANGED <<dir, conflict, sessid_local, setup_err, err,
                           closeh, offers, given, hungup>>
       ELSE UNCHANGED restVars

\* recv_setup: drop a SETUP from another client than the one adopted,
\* otherwise adopt the sender's clientid (whatever the state) and handle.
recv_setup(e, m, n) ==
    \/ /\ clientid_remote[e] \notin {NoId, m.src}
       /\ Dropped(n)
    \/ /\ clientid_remote[e] \in {NoId, m.src}
       /\ clientid_remote' = [clientid_remote EXCEPT ![e] = m.src]
       /\ IF m.resp THEN handle_setup_response(e, m, n)
                    ELSE handle_setup_request(e, m, n)

\* Mutant: the default case of the switch breaks instead of returning, so
\* an UPDATE(req) is handled in any state but the glare winner's.
UpdateRequestAccepted_fallthrough(e, m) ==
    /\ clientid_remote[e] = m.src
    /\ ~(state[e] = "UPDATE_SENT" /\ econn_iswinner(e, m.src))

\* Mutant: the glare winner does not return and handles the request too.
UpdateRequestAccepted_winner_too(e, m) ==
    /\ clientid_remote[e] = m.src
    /\ state[e] \in {"ANSWERED", "DATACHAN_ESTABLISHED", "UPDATE_SENT"}

\* handle_update_request accepts from ANSWERED / DATACHAN_ESTABLISHED, and
\* from UPDATE_SENT when it loses the glare (should_reset); the winner of
\* the glare and every other state return without a change.
UpdateRequestAccepted(e, m) ==
    /\ clientid_remote[e] = m.src
    /\ \/ state[e] \in {"ANSWERED", "DATACHAN_ESTABLISHED"}
       \/ state[e] = "UPDATE_SENT" /\ ~econn_iswinner(e, m.src)

handle_update_request(e, m, n) ==
    IF UpdateRequestAccepted(e, m)
    THEN /\ net' = n
         /\ state' = [state EXCEPT ![e] = "UPDATE_RECV"]
         /\ tmr' = [tmr EXCEPT ![e] = "local"]
         /\ Notify(e, "update_reqh")
         /\ given' = [given EXCEPT ![e] = m.sdp]
         /\ UNCHANGED <<dir, clientid_remote, sessid_remote, conflict,
                        sessid_local, setup_err, err, closeh, role, hungup, offers,
                        applied>>
    ELSE Dropped(n)

handle_update_response(e, m, n) ==
    IF clientid_remote[e] = m.src /\ state[e] = "UPDATE_SENT"
    THEN /\ net' = n
         /\ tmr' = [tmr EXCEPT ![e] = "none"]
         /\ state' = [state EXCEPT ![e] = "ANSWERED"]
         /\ Notify(e, "update_resph")
         /\ role' = [role EXCEPT ![e] = "offerer"]
         /\ applied' = [applied EXCEPT ![e] = m.sdp]
         /\ UNCHANGED <<dir, clientid_remote, sessid_remote, conflict,
                        sessid_local, setup_err, err, closeh, offers, given, hungup>>
    ELSE Dropped(n)

\* Mutant: recv_update without its session id check.
recv_update_any_session(e, m, n) ==
    IF m.resp THEN handle_update_response(e, m, n)
              ELSE handle_update_request(e, m, n)

\* recv_update: the sender's session id must be the adopted one.
recv_update(e, m, n) ==
    \/ /\ sessid_remote[e] # m.sessid
       /\ Dropped(n)
    \/ /\ sessid_remote[e] = m.sessid
       /\ IF m.resp THEN handle_update_response(e, m, n)
                    ELSE handle_update_request(e, m, n)

\* Mutant: recv_cancel without its session id check.
recv_cancel_any_session(e, m, n) ==
    IF /\ clientid_remote[e] = m.src
       /\ state[e] \in {"PENDING_INCOMING", "ANSWERED", "DATACHAN_ESTABLISHED"}
    THEN /\ econn_close(e, "TERMINATING", "ECANCELED", n)
         /\ UNCHANGED <<dir, clientid_remote, sessid_remote, conflict,
                        sessid_local, err, role, hungup, sdpVars>>
    ELSE Dropped(n)

\* recv_cancel: clientid, then state, then session id; then close with
\* ECANCELED (state set to TERMINATING before econn_close).
recv_cancel(e, m, n) ==
    IF /\ clientid_remote[e] = m.src
       /\ state[e] \in {"PENDING_INCOMING", "ANSWERED", "DATACHAN_ESTABLISHED"}
       /\ sessid_remote[e] = m.sessid
    THEN /\ econn_close(e, "TERMINATING", "ECANCELED", n)
         /\ UNCHANGED <<dir, clientid_remote, sessid_remote, conflict,
                        sessid_local, err, role, hungup, sdpVars>>
    ELSE Dropped(n)

\* The HANGUP handling of recv_hangup once its checks passed: answer a
\* request with HANGUP(resp), whose send error is only logged; close(0).
HangupAccepted(e, m, n) ==
    /\ \E ok \in SendResults("HANGUP") :
          econn_close(e, "TERMINATING", "OK",
                      IF m.resp THEN n ELSE send_hangup(e, TRUE, n, ok))
    /\ hungup' = [hungup EXCEPT ![e] = TRUE]
    /\ UNCHANGED <<dir, clientid_remote, sessid_remote, conflict,
                   sessid_local, err, role, sdpVars>>

\* Mutant: recv_hangup without its session id check.
recv_hangup_any_session(e, m, n) ==
    IF state[e] \in {"DATACHAN_ESTABLISHED", "HANGUP_SENT"}
    THEN HangupAccepted(e, m, n)
    ELSE Dropped(n)

\* recv_hangup: session id and state checks (no clientid check).
recv_hangup(e, m, n) ==
    IF /\ sessid_remote[e] = m.sessid
       /\ state[e] \in {"DATACHAN_ESTABLISHED", "HANGUP_SENT"}
    THEN HangupAccepted(e, m, n)
    ELSE Dropped(n)

econn_recv_message(e, m, n) ==
    \/ m.type = "SETUP" /\ recv_setup(e, m, n)
    \/ m.type = "UPDATE" /\ recv_update(e, m, n)
    \/ m.type = "CANCEL" /\ recv_cancel(e, m, n)
    \/ m.type = "HANGUP" /\ recv_hangup(e, m, n)
    \/ m.type = "PROPSYNC" /\ Dropped(n)   \* "message not supported"

-----------------------------------------------------------------------------
(* The transport                                                          *)

\* The transport delivers the oldest message of link l (any message when
\* it may reorder) to the record at l[2].
Deliver(l) ==
    \E i \in IF Reorder THEN 1..Len(net[l]) ELSE 1..Min({1, Len(net[l])}) :
        econn_recv_message(l[2], net[l][i],
                           [net EXCEPT ![l] = RemoveAt(@, i)])

\* A lossy transport drops a message.
Lose(l) ==
    /\ Lossy
    /\ \E i \in 1..Len(net[l]) : net' = [net EXCEPT ![l] = RemoveAt(@, i)]
    /\ UNCHANGED <<connVars, histVars>>

\* A duplicating transport hands a message over twice: the copy follows
\* the original (and may take a link one past MaxInFlight).
Duplicate(l) ==
    /\ Duplicating
    /\ Len(net[l]) <= MaxInFlight
    /\ \E i \in 1..Len(net[l]) :
          net' = [net EXCEPT ![l] = InsertAt(@, i + 1, @[i])]
    /\ UNCHANGED <<connVars, histVars>>

-----------------------------------------------------------------------------

Next ==
    \/ \E e \in Endpoints :
          \/ econn_start(e)
          \/ econn_answer(e)
          \/ econn_update_req(e)
          \/ econn_update_resp(e)
          \/ econn_end(e)
          \/ econn_send_propsync(e)
          \/ econn_set_datachan_established(e)
          \/ econn_set_error(e)
          \/ NewCall(e)
          \/ tmr_local_handler(e)
          \/ tmr_term_handler(e)
          \/ tmr_cancel_handler(e)
    \/ \E l \in Links : Deliver(l) \/ Lose(l) \/ Duplicate(l)

\* The re main loop runs every expired timer and the transport hands over
\* every message it has; the application is not obliged to call anything.
Fairness ==
    /\ \A e \in Endpoints :
          /\ WF_vars(tmr_local_handler(e))
          /\ WF_vars(tmr_term_handler(e))
          /\ WF_vars(tmr_cancel_handler(e))
    /\ \A l \in Links : WF_vars(Deliver(l))

Spec == Init /\ [][Next]_vars /\ Fairness

-----------------------------------------------------------------------------
(* Properties                                                             *)

\* econn_close clears conn->closeh before calling it, so the close
\* notification reaches the application at most once per record, even
\* when the application keeps calling the API after it (econn_update_req
\* re-arms the setup timer in any state, whose expiry closes again).
CloseAtMostOnce == \A e \in Endpoints : nclose[e] <= 1

\* Spec 8.5: once closeh has fired, no other callback fires on the record,
\* whatever messages still arrive and whatever timers were armed.
NoCallbackAfterClose ==
    \A e \in Endpoints : nclose[e] > 0 => lastcb[e] = "closeh"

\* After closeh the record is TERMINATING and no timer of it is running:
\* econn_close cancels tmr_local, and nothing received later re-arms it.
ClosedIsQuiet ==
    \A e \in Endpoints :
        nclose[e] > 0 => state[e] = "TERMINATING" /\ tmr[e] = "none"

\* Glare resolution: when two records that adopted each other's session
\* are both ANSWERED or DATACHAN_ESTABLISHED, exactly one of them answered
\* the other's offer (SETUP or UPDATE); never both, never neither.
OfferAnswerAgreement ==
    \A a, b \in Endpoints :
        (/\ a # b
         /\ sessid_remote[a] = sessid_local[b]
         /\ sessid_remote[b] = sessid_local[a]
         /\ state[a] \in {"ANSWERED", "DATACHAN_ESTABLISHED"}
         /\ state[b] \in {"ANSWERED", "DATACHAN_ESTABLISHED"})
        => role[a] # role[b]

\* A record that reaches TERMINATING eventually calls closeh (spec 7:
\* "terminal errors always surface through the close callback").
TerminatingCloses ==
    \A e \in Endpoints : state[e] = "TERMINATING" ~> nclose[e] > 0

\* The timers bound every wait: a record that waits for the peer or the
\* application leaves the waiting state.
WaitingEnds ==
    \A e \in Endpoints : state[e] \in Waiting ~> state[e] \notin Waiting

\* When one side of a call has closed, the other side, if it ever left
\* IDLE, closes too: the call never stays open on one side only.
PeerCloses ==
    \A a, b \in Endpoints :
        a # b => ((nclose[a] > 0 /\ state[b] # "IDLE") ~> nclose[b] > 0)

-----------------------------------------------------------------------------
(* Refinement of the abstract call (Call.tla)                              *)

\* The phase of the call a state of econn belongs to.  HANGUP_RECV is only
\* passed through inside recv_hangup.
Phase(s) ==
    CASE s = "IDLE" -> "idle"
      [] s \in {"PENDING_OUTGOING", "PENDING_INCOMING",
               "CONFLICT_RESOLUTION"} -> "setup"
      [] s = "TERMINATING" -> "closed"
      [] OTHER -> "call"

CallAbs == INSTANCE Call WITH
    Parties <- Endpoints,
    phase <- [e \in Endpoints |-> Phase(state[e])],
    told <- [e \in Endpoints |-> nclose[e] > 0]

\* The SDP exchange: a record that is ANSWERED or DATACHAN_ESTABLISHED as
\* offerer has been handed (answerh / update_resph) an answer to the last
\* offer its application made, not to an earlier one.  handle_setup_
\* response and handle_update_response accept any response in the right
\* state; only the order of events makes it the right one.
AnswerMatchesOffer ==
    \A e \in Endpoints :
        (role[e] = "offerer"
         /\ state[e] \in {"ANSWERED", "DATACHAN_ESTABLISHED"})
            => applied[e] = LastOffer(e)

\* The record of session s has ended: it is TERMINATING, or the endpoint
\* has since destroyed it and allocated another.
SessionEnded(s) == sessid_local[s[1]] # s \/ state[s[1]] = "TERMINATING"

\* A record closed by a CANCEL (ECANCELED) was cancelled by the peer record
\* it adopted, which has ended: a CANCEL left over from an earlier call of
\* the same client never ends the current one (recv_cancel compares the
\* sender's session id with sessid_remote).
CancelFromAdoptedSession ==
    \A e \in Endpoints :
        setup_err[e] = "ECANCELED" => SessionEnded(sessid_remote[e])

\* The offer the application was last handed to answer, by connh or by
\* update_reqh, was made by the peer record whose session the record
\* adopted: an UPDATE left over from an earlier call of the same client
\* is never handed over as an offer of the current one (recv_update
\* compares the sender's session id with sessid_remote).
OfferFromAdoptedSession ==
    \A e \in Endpoints :
        lastcb[e] \in {"connh", "update_reqh"} => given[e][1] = sessid_remote[e]

\* A record closed by a HANGUP was hung up by the peer record it adopted,
\* and that record is leaving the call too: it sent the HANGUP request
\* (HANGUP_SENT) or has closed.  A HANGUP left over from an earlier call
\* of the peer never ends the current one (recv_hangup compares the
\* sender's session id with sessid_remote; it does not check clientid).
HangupFromEndedCall ==
    \A e \in Endpoints :
        hungup[e] =>
            LET s == sessid_remote[e]
            IN  sessid_local[s[1]] # s
                \/ state[s[1]] \in {"HANGUP_SENT", "TERMINATING"}

\* Every behaviour of the econn records is one of the abstract call: no
\* record returns to an earlier phase (a stray SETUP or an API call in
\* the wrong state cannot reopen setup or a closed record), a record is
\* ANSWERED only after its peer left IDLE, and closeh is called only on a
\* record that is TERMINATING; and, under the fairness of the timers and
\* the transport, no record stays in call setup for ever and every record
\* that closes calls closeh.
CallRefinement == CallAbs!FairSpec

=============================================================================
