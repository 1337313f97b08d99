------------------------------ MODULE MsgCodec ------------------------------
(***************************************************************************)
(* The wire format of econn messages, src/src/econn_fmt/msg.c: a message  *)
(* record is encoded into a JSON object and a JSON object is decoded into *)
(* a message record.  A JSON object is a record of its fields, a field    *)
(* that is not there (or is not of the expected JSON type, which jzon_str *)
(* and jzon_object treat alike) being Absent.  Strings are a few tokens.  *)
(*                                                                         *)
(* One behaviour is one conversion: a message the local side encodes and  *)
(* then decodes (the peer's view of it), or a JSON text from the network  *)
(* that is decoded.                                                        *)
(***************************************************************************)
EXTENDS Naturals, TLC

CONSTANTS
    Absent,        \* a JSON field that is missing or of the wrong type
    NotJson,       \* a text jzon_decode cannot parse
    ZeroType,      \* msg_type of a zeroed econn_message (no type)
    Times,         \* curr_time / msg_time values (uint64 ms)
    WithoutProps,  \* may a SETUP / UPDATE be sent with props == NULL
    UintWidth      \* bits of uint64_t; a smaller width wraps the same way

ASSUME Times \subseteq Nat /\ WithoutProps \in BOOLEAN /\ UintWidth \in Nat

\* Unsigned subtraction of the C code: it wraps modulo 2^UintWidth.
UintSub(x, y) == (x - y) % (2 ^ UintWidth)

econn_proto_version == "3.0"

MsgTypes == {"SETUP", "UPDATE", "CANCEL", "HANGUP", "PROPSYNC"}

\* econn_msg_name (outside src/): the wire name of a type; any other type
\* gets a name no decoder knows.
econn_msg_name(t) ==
    CASE t = "SETUP" -> "setup"  [] t = "UPDATE" -> "update"
      [] t = "CANCEL" -> "cancel" [] t = "HANGUP" -> "hangup"
      [] t = "PROPSYNC" -> "propsync" [] OTHER -> "???"

\* The strings a "type" field can hold: each wire name in lower and in
\* upper case (the upper-case spelling is the enum's name), and two that
\* name no type.
TypeWords == {econn_msg_name(t) : t \in MsgTypes} \cup MsgTypes \cup {"bogus", "???"}

\* str_casecmp's view of a type word: the wire name it equals when case is
\* ignored, or the word itself when it equals none.
CaseFold(w) ==
    IF \E t \in MsgTypes : w \in {t, econn_msg_name(t)}
    THEN econn_msg_name(CHOOSE t \in MsgTypes : w \in {t, econn_msg_name(t)})
    ELSE w

\* A props dictionary ("P"), or a "props" field that is not an object.
Props == {"P"}

\* JSON objects as they arrive: every combination of these field values.
Wire == [version : {"3.0", "2.0", Absent},
         type : TypeWords \cup {Absent},
         sessid : {"s1", Absent},
         resp : BOOLEAN \cup {Absent},
         sdp : {"sdp", Absent},
         props : Props \cup {"notobj", Absent}]

\* Messages the application side builds; "BOGUS" is a type value outside
\* enum econn_msg.  SDP is always given; props may be NULL.
Messages ==
    {m \in [type : MsgTypes \cup {"BOGUS"}, sessid : {"s1"}, resp : BOOLEAN,
            sdp : {"sdp"}, props : Props \cup {Absent}] :
        WithoutProps \/ m.props # Absent \/ m.type \in {"CANCEL", "HANGUP"}}

\* A decoded message: the fields of Messages plus time and age.
Decoded == [type : MsgTypes \cup {ZeroType}, sessid : {"s1", ""},
            resp : BOOLEAN, sdp : {"sdp", Absent},
            props : Props \cup {Absent}, time : Nat, age : Nat]

\* econn_message_alloc (outside src/): a zeroed message.
ZeroMsg == [type |-> ZeroType, sessid |-> "", resp |-> FALSE, sdp |-> Absent,
            props |-> Absent, time |-> 0, age |-> 0]

-----------------------------------------------------------------------------
(* econn_message_encode                                                   *)

\* The object jzon_creatf builds before the per-type fields are added.
EmptyObject(m) ==
    [version |-> econn_proto_version, type |-> econn_msg_name(m.type),
     sessid |-> m.sessid, resp |-> m.resp, sdp |-> Absent, props |-> Absent]

\* Mutant: SETUP and UPDATE are encoded without their props.
econn_message_encode_no_props(m) ==
    LET o == EmptyObject(m) IN
    CASE m.type \in {"SETUP", "UPDATE"} ->
            [err |-> "OK", str |-> [o EXCEPT !.sdp = m.sdp]]
      [] m.type \in {"CANCEL", "HANGUP"} -> [err |-> "OK", str |-> o]
      [] m.type = "PROPSYNC" ->
            IF m.props = Absent THEN [err |-> "EINVAL", str |-> Absent]
            ELSE [err |-> "OK", str |-> [o EXCEPT !.props = m.props]]
      [] OTHER -> [err |-> "EBADMSG", str |-> Absent]

\* econn_message_encode: [err, str]; str is the JSON object on success.
econn_message_encode(m) ==
    LET o == EmptyObject(m) IN
    CASE m.type \in {"SETUP", "UPDATE"} ->
            \* props is optional for SETUP
            [err |-> "OK", str |-> [o EXCEPT !.sdp = m.sdp, !.props = m.props]]
      [] m.type \in {"CANCEL", "HANGUP"} -> [err |-> "OK", str |-> o]
      [] m.type = "PROPSYNC" ->
            IF m.props = Absent THEN [err |-> "EINVAL", str |-> Absent]
            ELSE [err |-> "OK", str |-> [o EXCEPT !.props = m.props]]
      [] OTHER -> [err |-> "EBADMSG", str |-> Absent]

-----------------------------------------------------------------------------
(* econn_message_decode                                                   *)

\* Mutant: any "props" value is taken, object or not.
econn_props_decode_any(o) ==
    IF o.props # Absent THEN [err |-> "OK", props |-> o.props]
                        ELSE [err |-> "EJZON", props |-> Absent]

\* econn_props_decode: [err, props]; "EJZON" is jzon_object's error.
econn_props_decode(o) ==
    IF o.props \in Props THEN [err |-> "OK", props |-> o.props]
                         ELSE [err |-> "EJZON", props |-> Absent]

\* The decoded per-type part of o, with the error it ends with.  UPDATE
\* only logs a props error, but err keeps it and the decode fails.
DecodeBody(o, msg) ==
    LET t == CaseFold(o.type)
        pd == econn_props_decode(o)
        withSdp(mt) == [msg EXCEPT !.type = mt, !.sdp = o.sdp]
    IN
    CASE t = "setup" /\ o.sdp = Absent -> [err |-> "EBADMSG", msg |-> msg]
      [] t = "setup" -> [err |-> pd.err,
                         msg |-> [withSdp("SETUP") EXCEPT !.props = pd.props]]
      [] t = "update" /\ o.sdp = Absent -> [err |-> "EBADMSG", msg |-> msg]
      [] t = "update" -> [err |-> pd.err,
                          msg |-> [withSdp("UPDATE") EXCEPT !.props = pd.props]]
      [] t = "cancel" -> [err |-> "OK", msg |-> [msg EXCEPT !.type = "CANCEL"]]
      [] t = "hangup" -> [err |-> "OK", msg |-> [msg EXCEPT !.type = "HANGUP"]]
      [] t = "propsync" -> [err |-> pd.err,
                            msg |-> [msg EXCEPT !.type = "PROPSYNC",
                                                !.props = pd.props]]
      [] OTHER -> [err |-> "EBADMSG", msg |-> msg]

\* Mutant: "type" checked before "version".
HeaderError_type_first(s) ==
    CASE s.type = Absent -> "EBADMSG"
      [] s.version = Absent -> "EBADMSG"
      [] s.version # econn_proto_version -> "EPROTO"
      [] OTHER -> "OK"

\* The "version" and "type" checks, in the order the decoder makes them.
HeaderError(s) ==
    CASE s.version = Absent -> "EBADMSG"
      [] s.version # econn_proto_version -> "EPROTO"
      [] s.type = Absent -> "EBADMSG"
      [] OTHER -> "OK"

\* Mutant: the age is computed without the msg_time > curr_time guard.
MessageAge_unguarded(curr, at) == UintSub(curr, at)

\* msg->age: 0 when the sender's clock is ahead, else the difference.
MessageAge(curr, at) == IF at > curr THEN 0 ELSE UintSub(curr, at)

\* econn_message_decode(curr_time, msg_time, str): [err, msg].  A missing
\* "sessid" jumps to out with err still 0.
econn_message_decode(curr, at, s) ==
    LET fail(code) == [err |-> code, msg |-> Absent] IN
    CASE s = NotJson -> fail("EJZON")
      [] HeaderError(s) # "OK" -> fail(HeaderError(s))
      [] s.sessid = Absent -> [err |-> "OK", msg |-> ZeroMsg]
      [] s.resp = Absent -> fail("EJZON")
      [] OTHER ->
           LET b == DecodeBody(s, [ZeroMsg EXCEPT !.sessid = s.sessid,
                                                  !.resp = s.resp])
           IN  IF b.err # "OK" THEN fail(b.err)
               ELSE [err |-> "OK",
                     msg |-> [b.msg EXCEPT !.time = at,
                                          !.age = MessageAge(curr, at)]]

-----------------------------------------------------------------------------
(* One conversion.  msg is the message a local econn encodes (NoMsg when  *)
(* the text comes from the network), str the JSON object on the wire,    *)
(* dec the result of econn_message_decode on the receiving side.           *)

CONSTANTS NoMsg, NoStr, NoResult

VARIABLES msg, str, now, at, dec

vars == <<msg, str, now, at, dec>>

TypeOK ==
    /\ msg \in Messages \cup {NoMsg}
    /\ str \in Wire \cup {NotJson, NoStr}
    /\ now \in Times /\ at \in Times
    /\ dec \in {NoResult} \cup [err : {"OK"}, msg : Decoded]
                          \cup [err : {"EJZON", "EBADMSG", "EPROTO"},
                                msg : {Absent}]

Init ==
    /\ now \in Times /\ at \in Times
    /\ dec = NoResult
    /\ \/ msg \in Messages /\ str = NoStr
       \/ msg = NoMsg /\ str \in Wire \cup {NotJson}

\* econn_message_encode, called by econn_send_setup and the other senders;
\* a failed encode sends nothing.
Encode ==
    /\ msg # NoMsg /\ str = NoStr
    /\ LET r == econn_message_encode(msg) IN
         /\ r.err = "OK"
         /\ str' = r.str
    /\ UNCHANGED <<msg, now, at, dec>>

\* econn_message_decode on the text the transport delivered.
Decode ==
    /\ str # NoStr /\ dec = NoResult
    /\ dec' = econn_message_decode(now, at, str)
    /\ UNCHANGED <<msg, str, now, at>>

Next == Encode \/ Decode

Spec == Init /\ [][Next]_vars

-----------------------------------------------------------------------------
(* Properties                                                             *)

\* Whatever one econn encodes, the peer's econn_message_decode accepts and
\* reads back as the same message (type, sessid, resp, sdp and props):
\* the encoder and the decoder agree on which fields each type carries.
SameMessage(d, m) ==
    /\ d.type = m.type /\ d.sessid = m.sessid /\ d.resp = m.resp
    /\ m.type \in {"SETUP", "UPDATE"} => d.sdp = m.sdp
    /\ m.type \in {"SETUP", "UPDATE", "PROPSYNC"} => d.props = m.props

RoundTrip ==
    (msg # NoMsg /\ dec # NoResult) =>
        /\ dec.err = "OK"
        /\ SameMessage(dec.msg, msg)
        /\ dec.msg.time = at

\* A JSON object from a peer that speaks another protocol version is
\* rejected with EPROTO by econn_message_decode, whatever else it lacks,
\* so that the caller can tell a version mismatch from a broken message.
VersionRejected ==
    (dec # NoResult /\ str \in Wire /\ str.version \notin {Absent, "3.0"})
        => dec.err = "EPROTO"

\* econn_message_decode never accepts a JSON object that lacks a field
\* its type requires: version, type, sessid and resp always, sdp for
\* SETUP and UPDATE, props for PROPSYNC.
MissingField(o) ==
    \/ \E f \in {"version", "type", "sessid", "resp"} : o[f] = Absent
    \/ CaseFold(o.type) \in {"setup", "update"} /\ o.sdp = Absent
    \/ CaseFold(o.type) = "propsync" /\ o.props \notin Props

MissingFieldRejected ==
    (dec # NoResult /\ str \in Wire /\ MissingField(str)) => dec.err # "OK"

\* The age handed to connh never exceeds the receiver's clock: a message
\* stamped by a sender whose clock is ahead of ours is 0 ms old, not a
\* wrapped-around uint64 difference.
AgeWithinClock ==
    (dec # NoResult /\ dec.err = "OK") => dec.msg.age <= now

=============================================================================
