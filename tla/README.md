# TLA+ models of econn (call signalling) and its message codec

This directory models the call-signalling core of wire-audio-video-signaling:

- `src/src/econn/econn.c`: the per-call connection state machine ("econn"). Its
  parts are the API the application calls, the handlers for received messages,
  the setup/termination timers and the close path.
- `src/src/econn_fmt/msg.c`: the JSON wire format of econn messages.

TLC checks the models.

## 1. Inventory of the system

| Part | State | Operations | Interacts with |
|---|---|---|---|
| Connection state machine (`econn.c`) | `state` (11 states), `dir`, `clientid_remote`, `sessid_local`, `sessid_remote`, `conflict`, `setup_err`, `err`, `closeh`, `tmr_local` | `econn_start`, `econn_answer`, `econn_update_req`, `econn_update_resp`, `econn_end`, `econn_send_propsync`, `econn_set_datachan_established`, `econn_set_error`, `econn_recv_message` → `recv_setup` / `recv_update` / `recv_cancel` / `recv_hangup` and the `handle_*` handlers, `econn_close` | transport, timers, application callbacks, the peer's econn |
| Record lifecycle | the endpoint's current record | `econn_alloc` (a fresh `sessid_local`), `econn_destructor` | the application, which replaces a closed record for the next call |
| Glare resolver `econn_iswinner` (not under `src/`) | none | comparison of `<<userid, clientid>>` | `handle_setup_request`, `handle_update_request` |
| Timer `tmr_local` | the armed handler | `tmr_local_handler`, `tmr_term_handler`, `tmr_cancel_handler` | econn (each handler ends in `econn_close`) |
| Transport `econn_transp` (the application's) | messages in flight | `transp_send`; delivery calls `econn_recv_message` | both econns |
| Application callbacks | — | `connh`, `answerh`, `update_reqh`, `update_resph`, `closeh` | econn |
| Codec (`msg.c`) | none (pure) | `econn_message_encode`, `econn_message_decode`, `econn_props_decode` | transport (both ends) |

Every entry point runs to completion on the single `re` event loop. There are
no threads. Concurrency comes from two endpoints whose messages, timers and
application calls interleave.

Behaviour that makes the code hard to test:
- SETUP glare and UPDATE glare, both resolved by `econn_iswinner`.
- Timers racing late answers.
- Lost, failing, reordered or duplicated sends.
- An answer applied to an offer other than the one it answers.
- An application that keeps using a record after `closeh`.
- A record destroyed and replaced for a new call while messages of the old
  call are still in flight.
- `timeout_setup = 0`.
- Decoding JSON objects that lack fields.

## 2. Modules

### `Econn.tla`: the connection state machine and two endpoints

Each `econn.c` variable is a function over the constant set `Endpoints`. One
action models each entry point, including every call it makes that changes
state.

| Code | Model |
|---|---|
| `econn_close` | operator `econn_close(e, st, code, n)`, used inside each action that closes |
| `econn_send_setup`, `send_cancel`, `send_hangup` | operators returning the network after the send; `econn_send_setup`'s error path is `SendSetupFailed` |
| `recv_hangup` once its checks passed | `HangupAccepted`: HANGUP(resp) to a request, then `econn_close(0)` |
| `econn_start`, `econn_answer`, `econn_update_req`, `econn_update_resp`, `econn_end`, `econn_send_propsync`, `econn_set_datachan_established`, `econn_set_error` | one action each, same name |
| the three timer handlers | one action each, same name |
| `econn_destructor` followed by `econn_alloc` | `NewCall(e)`: after `closeh` the endpoint's record is replaced by a fresh one |
| delivery (`econn_recv_message` and its handlers) | `Deliver(l)`. It pops a message from `net[<<s,d>>]`, the head when FIFO or any message when `Reorder`, and runs the handler. `Lose(l)` drops one when `Lossy`. `Duplicate(l)` doubles one when `Duplicating`. |

How data is abstracted:
- A message keeps its type, resp flag, sender session id and sender. Props
  are left out. SDP is reduced to which offer it is (below).
- A session id is `<<endpoint, k>>`: the `k`-th record the endpoint
  allocated. `rand_str` makes session ids unique, and the pair is unique in
  the same way. The transport addresses endpoints, so a message still in
  flight for a destroyed record reaches the endpoint's next record. That
  record's session id checks are then what keeps the old call out.
- `tmr` records which handler the single `tmr_local` runs.
- History variables record what the application saw: `lastcb`, `nclose`,
  `role` ("offerer" or "answerer" of the exchange that reached ANSWERED), and
  `hungup` (the record was closed by a HANGUP it received).
- SDP is opaque to econn, but which offer an SDP is matters. A SETUP or UPDATE
  request carries an offer `<<session, n>>`, and a response carries the offer
  it answers. The application's side of the exchange has three variables:
  - `offers`: how many offers it made (a new one on `econn_start` from IDLE and
    on `econn_update_req`; a retry of `econn_start` from PENDING_OUTGOING
    resends the same offer);
  - `given`: the offer handed to it by `connh`, by `answerh` in glare, or by
    `update_reqh`, which its next answer answers;
  - `applied`: the offer that the answer handed by `answerh` or `update_resph`
    answers.

Constants:
- `TimeoutSetup`: only 0 versus not 0 matters.
- `FailingSends`: the message types whose `transp_send` may fail.
- `AppAfterClose`, `UpdateAnyState`: whether the application keeps its
  documented contract.
- `Reorder`, `Lossy`: the transport.
- `MaxInFlight`: a model bound on queued messages per link. The application
  does not call the API while a link is full.
- `Duplicating`: the transport may deliver a message twice.
- `MaxOffers`: a model bound on the offers made on one record.
- `MaxCalls`: a model bound on the records one endpoint allocates in turn.
  With 1, the two records of the run are the only ones.

### `Call.tla`: the abstract call

What a record promises its application. Each party goes `idle` → `setup` →
`call` → `closed`, never backwards. A party enters `call` only once some other
party has left `idle`. `told` (the application got `closeh`) is set only on a
closed party, either in the closing step or later (`Tell`, the close deferred
to `tmr_cancel_handler`).

`Econn.tla` implements it through `CallAbs == INSTANCE Call WITH ...`. The
refinement mapping is:
- `phase`: `Phase(state[e])`. IDLE is idle; PENDING_OUTGOING,
  PENDING_INCOMING and CONFLICT_RESOLUTION are setup; TERMINATING is closed;
  every other state is call.
- `told`: `nclose[e] > 0`.

`Call.tla` also states what it promises over time. `FairSpec` adds weak
fairness to leaving setup (`LeaveSetup`: connect or close) and to `Tell`. No
call setup lasts for ever, and the application of a closed party is told in
the end. A call itself may last for ever, because hanging up is the
application's choice. The fifo run checks `CallRefinement == CallAbs!FairSpec`
as a property, so the records' timers and the transport must provide this
fairness. This subsumes `TerminatingCloses` in that run; a mutant that calls
`closeh` only on an error close breaks it through `Tell`. Its records are never
replaced (`MaxCalls = 1`).

### `MsgCodec.tla`: the wire format

A JSON object is a record of its fields. A field that is absent, or not of the
expected JSON type, is `Absent`. `econn_message_encode` and
`econn_message_decode` are operators that follow the code's order of checks:
- `HeaderError`: version, then type.
- The early `goto out` when sessid is missing.
- `DecodeBody`: the per-type part.
- `econn_props_decode`.

The case-insensitive type match (`str_casecmp`) is `CaseFold`. A type field
holds each wire name in lower case and in upper case, or a word that names no
type. `msg->age` is `MessageAge`.
Its unsigned subtraction `UintSub` wraps modulo `2^UintWidth`. TLC's integers
are 32-bit, so the MC module narrows `uint64_t` to 4 bits, which wraps the same
way. The state machine around them
does one conversion per behaviour. It either encodes a message and decodes the
result (`Encode`, then `Decode`), or it decodes an arbitrary JSON object from
the network.

### MC modules

- `MC_Econn.tla` instantiates two endpoints `a` and `b`. `b` has the greater
  identity and wins glare.
- `MC_MsgCodec.tla` sets `Times = {0, 1}`, so the sender's clock may be ahead of
  the receiver's.

## 3. Runs

| Run (cfg) | Result | What it shows |
|---|---|---|
| `Econn_fifo` | pass | Reliable FIFO transport, failing CANCEL/HANGUP/PROPSYNC sends, and an application that keeps the contract. These hold: `NoCallbackAfterClose`; `ClosedIsQuiet`; `OfferAnswerAgreement` (SETUP and UPDATE glare end with one offerer and one answerer); `AnswerMatchesOffer` (an offerer is handed the answer to its latest offer); the liveness property `WaitingEnds`; and `CallRefinement`, the refinement of `Call.tla` with its fairness (`FairSpec`). |
| `Econn_sessions` | pass | Each endpoint may replace its closed record once (`MaxCalls = 2`), and the transport reorders and loses messages. `CancelFromAdoptedSession`: a CANCEL closes a record only when it comes from the peer record the record adopted, and that record has ended. `OfferFromAdoptedSession`: the offer handed to `connh` or `update_reqh` comes from the adopted session. `HangupFromEndedCall`: a record closed by a HANGUP was hung up by the adopted peer record, which has itself sent HANGUP or closed. A CANCEL, UPDATE or HANGUP left over from the first call never reaches the second one. `NoCallbackAfterClose` and `ClosedIsQuiet` hold per record, and under loss. |
| `Econn_misuse` | pass | `CloseAtMostOnce` holds even when the application calls into closed records and calls `econn_update_req` in any state, and the transport duplicates messages. |
| `Econn_reorder` | violation | With reordering, a stale UPDATE request from the glare loser is accepted after resolution. Both records end as answerer. |
| `Econn_late_answer` | violation | A record's setup times out and the endpoint calls again on a new record, over a reliable FIFO transport. The peer answered the old SETUP before the old record's CANCEL reached it. The new record, in PENDING_OUTGOING, takes that answer for the answer to its own offer, because `handle_setup_response` (`econn.c:271`) checks only the state (`AnswerMatchesOffer`). It adopts the old call's peer session. The CANCEL then closes the peer, so the new record sits in ANSWERED with a peer that has closed. |
| `Econn_setup_fail` | violation | A failed SETUP send sets TERMINATING without `econn_close`. `closeh` is never called (`TerminatingCloses`). |
| `Econn_zero_timeout` | violation | With `timeout_setup = 0`, `econn_start` leaves PENDING_OUTGOING with no timer (`WaitingEnds`). |
| `Econn_peer_close` | violation | The glare winner times out and sends CANCEL. The loser is in CONFLICT_RESOLUTION, where `recv_cancel` ignores CANCEL (`econn.c:481`). The loser then answers and stays in the call for ever (`PeerCloses`). |
| `Econn_after_close` | violation | `econn_update_req` has no state check (`econn.c:702-712`). Called on a closed record, it restarts signalling, and update callbacks fire after `closeh` (`NoCallbackAfterClose`). |
| `Codec_roundtrip` | pass | Every message that carries the fields its type needs decodes back to itself. A foreign version gives EPROTO before any other error. The age never exceeds the receiver's clock, even when the sender's clock is ahead (`AgeWithinClock`). |
| `Codec_no_props` | violation | SETUP or UPDATE without props is encoded but not decodable. For UPDATE the code comment says props is optional, yet `err` is kept (`msg.c:248-250`). |
| `Codec_missing_field` | violation | A JSON object without sessid decodes successfully into a message with no type (`msg.c:201-205`). |

Each property of a passing run has a mutant in `PROJECT.json`: a plausible bug
in a mapped definition that TLC finds. Examples:
- the timer not cancelled in `econn_close`;
- `closeh` not cleared;
- the UPDATE glare winner accepting the loser's request;
- the setup timer never started;
- props accepted when they are not an object;
- the type checked before the version;
- SETUP and UPDATE encoded without their props;
- the `msg_time > curr_time` guard of the age dropped;
- the state check of `econn_set_datachan_established` dropped, which breaks
  the refinement;
- the session id check of `recv_cancel`, `recv_update` or `recv_hangup`
  dropped.

### Bounds

Two endpoints are enough for every race in econn.c. All its interactions are
pairwise (the caller and the callee of one call). `MaxInFlight = 2` lets two
SETUPs or UPDATEs cross while a CANCEL or HANGUP is still queued, which is the
deepest overlap the protocol has. The misuse run uses 1, to stay small while
the application calls freely. `MaxOffers = 2` allows a SETUP offer and then an
UPDATE offer, or an UPDATE from each side. That is the least needed for one
answer to be stale against a newer offer. The sessions and late-answer runs use
`MaxOffers = 1` and `MaxCalls = 2`: one replacement per endpoint is enough for
a message of the first call to meet the second. The sessions run is the
largest, with about 2.3 million distinct states (about two minutes). In it a
HANGUP exchange of the first call can leave a HANGUP request in flight while
both endpoints reach DATACHAN_ESTABLISHED in the second. The misuse run also lets the transport duplicate
messages. A duplicate may take a link one past `MaxInFlight`, so duplication
happens even with its bound of 1. Two times suffice for the age computation: the
sender's clock is either ahead of the receiver's or it is not.

### Fairness

Timers are weakly fair: `tmr_start` guarantees that the handler runs.
Delivery is weakly fair on each link: the transport delivers what it accepted
unless the run makes it lossy, and the lossy sessions run checks safety only.
Replacing a record (`NewCall`) is the application's choice and is not fair. Nothing
is fair for the application: it may never answer or hang up, and liveness does
not depend on it. `CHECK_DEADLOCK` is off because the system really stops:
both records closed and nothing in flight is the end of a call, and a codec
behaviour ends after its decode.

## 4. Not modelled

- The props dictionary contents, SDP, logging and `econn_debug`.
- The getters.
- `econn_destructor`'s memory management. Its timer cancel is part of
  `NewCall`. Use after close is covered by `AppAfterClose` instead.
- An application that destroys a record before its `closeh`, in the middle
  of a call. The spec expects destruction after the close notification,
  which is the only case `NewCall` models.
- `econn_iswinner` and `econn_msg_name` are outside `src/`. They are modelled
  from their use and the spec, and marked `spec_modelled`.
- Timer durations: only whether a timer runs is kept.
- Calls to several devices of one user (fan-out). Which clients a message
  reaches is decided by the transport and the layer above econn, neither of
  which is under `src/`. With two endpoints, the model's transport delivers
  every message to the peer. A third endpoint would need an assumption about
  that routing that the code does not state.

## 5. Plan for further work

1. The refinement of `Call` with records replaced (an abstract step from
   closed back to idle, which `Call` does not allow today).
2. The codec composed into the transport, so that a SETUP or UPDATE without
   props is undecodable in `Econn` runs.
3. `econn_iswinner` as a pure operator, checked against a reference order for
   totality and antisymmetry.
