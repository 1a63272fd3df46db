------------------------------ MODULE MessagesProofs ------------------------------
(*****************************************************************************)
(* The messages for any requests, ids, correction fields, data sets and      *)
(* times of the clock.                                                       *)
(*                                                                           *)
(* HeaderKept is why a message that does not write its domain is read in the *)
(* right one: an answer copies the domain of a request, and handle() lets    *)
(* only requests of the port's own domain pass. CorrectionKnown says         *)
(* where the correction field of the buffer may come from.                   *)
(*****************************************************************************)
EXTENDS Messages, TLAPS

HeaderKept ==
    /\ msgObuf["domainNumber"] = domainNumber
    /\ msgObuf["flagField"] = TWO_STEP_FLAG
    /\ msgObuf["sourcePortIdentity"] = Self

CorrectionKnown ==
    /\ msgObuf["correctionField"] \in {0} \cup answered
    /\ ethernet_mode /\ "SYNC" \in pending => msgObuf["correctionField"] = 0

Inv == HeaderKept /\ ReadAsMeant /\ CorrectionKnown /\ FollowUpCorrection

-------------------------------------------------------------------------------
(* What is packed as a time stamp is read back as the time it was.           *)
LEMMA TimestampRead ==
    ASSUME NEW t \in Clock, NEW stamp \in fromInternalTime(t), Representable(t)
    PROVE  toInternalTime(stamp) = t
<1>1. INT_MAX \in Int
  BY WordAssumption DEF INT_MAX
<1>2. /\ t.seconds \in Int /\ 0 <= t.seconds /\ t.seconds < INT_MAX
      /\ t.nanoseconds \in Int /\ 0 <= t.nanoseconds
  BY <1>1 DEF Representable
<1>3. stamp = [secondsField |-> t.seconds, nanosecondsField |-> t.nanoseconds]
  BY <1>2 DEF fromInternalTime
<1>4. QED
  BY <1>2, <1>3, ClockAssumption DEF toInternalTime, TimeInternal, Time

(* A message is read as it was meant if it writes itself what is read beyond *)
(* the header, and no other header.                                          *)
LEMMA MessageRead ==
    ASSUME HeaderKept, NEW w, NEW type, NEW more, Send(w, type, more),
           DOMAIN w \subseteq Field, DOMAIN more \subseteq DOMAIN w,
           "messageType" \in DOMAIN w, w["messageType"] = type,
           "messageType" \notin DOMAIN more,
           "flagField" \notin DOMAIN w, "sourcePortIdentity" \notin DOMAIN w,
           "domainNumber" \notin DOMAIN more,
           "domainNumber" \in DOMAIN w => w["domainNumber"] = domainNumber,
           \A f \in DOMAIN more \ {"timestamp"} : w[f] = more[f],
           "timestamp" \in DOMAIN more /\ Representable(more["timestamp"])
               => toInternalTime(w["timestamp"]) = more["timestamp"]
    PROVE  /\ HeaderKept' /\ ReadAsMeant'
      /\ meant'["messageType"] = type
           /\ msgObuf'["correctionField"] =
                 IF "correctionField" \in DOMAIN w THEN w["correctionField"]
                 ELSE msgObuf["correctionField"]
<1>1. \A f \in Field : msgObuf'[f] = IF f \in DOMAIN w THEN w[f] ELSE msgObuf[f]
  BY DEF Send, Over
<1>2. /\ {"messageType", "domainNumber", "flagField", "sourcePortIdentity",
          "correctionField"} \subseteq Field
  BY DEF Field
<1>3. HeaderKept'
  BY <1>1, <1>2 DEF HeaderKept
<1>4. DOMAIN meant' = DOMAIN more \cup
         {"messageType", "domainNumber", "flagField", "sourcePortIdentity"}
  BY DEF Send, Says
<1>5. \A f \in DOMAIN more : meant'[f] = more[f]
  BY DEF Send, Says
<1>6. /\ meant'["messageType"] = type
      /\ meant'["domainNumber"] = domainNumber
      /\ meant'["flagField"] = TWO_STEP_FLAG
      /\ meant'["sourcePortIdentity"] = Self
  BY DEF Send, Says
<1>7. ReadAsMeant'
  <2> SUFFICES ASSUME NEW f \in DOMAIN meant'
               PROVE  IF f = "timestamp"
                      THEN Representable(meant'[f])
                               => toInternalTime(msgObuf'[f]) = meant'[f]
                      ELSE msgObuf'[f] = meant'[f]
    BY DEF ReadAsMeant
  <2>1. CASE f \in DOMAIN more
    BY <2>1, <1>1, <1>5
  <2>2. CASE f \notin DOMAIN more
    BY <2>2, <1>1, <1>2, <1>3, <1>4, <1>6 DEF HeaderKept
  <2>3. QED
    BY <2>1, <2>2
<1>8. QED
  BY <1>1, <1>2, <1>3, <1>6, <1>7

LEMMA Initially == Init => Inv
  BY DEF Init, Inv, HeaderKept, ReadAsMeant, CorrectionKnown,
     FollowUpCorrection, msgPackHeader, Over, Field, Zeroed, Nothing

(* One lemma for each message.                                               *)
LEMMA SyncKeeps ==
    ASSUME Inv, issueSync PROVE Inv'
<1> DEFINE w(stamp) == msgPackSync(sentSequenceId["SYNC"], stamp)
           more(t)  == [sequenceId |-> sentSequenceId["SYNC"],
                        correctionField |-> 0, timestamp |-> t]
<1>1. PICK t \in Clock :
          \E stamp \in fromInternalTime(t) :
              Send(w(stamp), "SYNC", more(t))
  BY DEF issueSync
<1>2. PICK stamp \in fromInternalTime(t) :
          Send(w(stamp), "SYNC", more(t))
  BY <1>1
<1>3. /\ HeaderKept' /\ ReadAsMeant'
      /\ meant'["messageType"] = "SYNC"
      /\ msgObuf'["correctionField"] =
            IF "correctionField" \in DOMAIN w(stamp)
            THEN w(stamp)["correctionField"] ELSE msgObuf["correctionField"]
  BY <1>2, TimestampRead, MessageRead DEF Inv, Field, msgPackSync
<1>4. QED
  BY <1>3 DEF Inv, CorrectionKnown, FollowUpCorrection,
     issueSync, msgPackSync

LEMMA AnnounceKeeps ==
    ASSUME Inv, issueAnnounce PROVE Inv'
<1> DEFINE w(d)    == msgPackAnnounce(sentSequenceId["ANNOUNCE"], d)
           more(d)  == [sequenceId |-> sentSequenceId["ANNOUNCE"],
                        utcOffset |-> d, quality |-> d, grandmaster |-> d]
<1>1. PICK d \in DataSets : Send(w(d), "ANNOUNCE", more(d))
  BY DEF issueAnnounce
<1>2. /\ HeaderKept' /\ ReadAsMeant'
      /\ meant'["messageType"] = "ANNOUNCE"
      /\ msgObuf'["correctionField"] =
            IF "correctionField" \in DOMAIN w(d)
            THEN w(d)["correctionField"] ELSE msgObuf["correctionField"]
  BY <1>1, MessageRead DEF Inv, Field, msgPackAnnounce
<1>3. QED
  BY <1>2 DEF Inv, CorrectionKnown, FollowUpCorrection,
     issueAnnounce, msgPackAnnounce

LEMMA DelayReqKeeps ==
    ASSUME Inv, issueDelayReq PROVE Inv'
<1> DEFINE w(stamp) == msgPackDelayReq(sentSequenceId["DELAY_REQ"], stamp)
           more(t)  == [sequenceId |-> sentSequenceId["DELAY_REQ"],
                        correctionField |-> 0]
<1>1. PICK t \in Clock :
          \E stamp \in fromInternalTime(t) :
              Send(w(stamp), "DELAY_REQ", more(t))
  BY DEF issueDelayReq
<1>2. PICK stamp \in fromInternalTime(t) :
          Send(w(stamp), "DELAY_REQ", more(t))
  BY <1>1
<1>3. /\ HeaderKept' /\ ReadAsMeant'
      /\ meant'["messageType"] = "DELAY_REQ"
      /\ msgObuf'["correctionField"] =
            IF "correctionField" \in DOMAIN w(stamp)
            THEN w(stamp)["correctionField"] ELSE msgObuf["correctionField"]
  BY <1>2, TimestampRead, MessageRead DEF Inv, Field, msgPackDelayReq
<1>4. QED
  BY <1>3 DEF Inv, CorrectionKnown, FollowUpCorrection,
     issueDelayReq, msgPackDelayReq

LEMMA PDelayReqKeeps ==
    ASSUME Inv, issuePDelayReq PROVE Inv'
<1> DEFINE w(stamp) == msgPackPDelayReq(sentSequenceId["PDELAY_REQ"], stamp)
           more(t)  == [sequenceId |-> sentSequenceId["PDELAY_REQ"],
                        correctionField |-> 0]
<1>1. PICK t \in Clock :
          \E stamp \in fromInternalTime(t) :
              Send(w(stamp), "PDELAY_REQ", more(t))
  BY DEF issuePDelayReq
<1>2. PICK stamp \in fromInternalTime(t) :
          Send(w(stamp), "PDELAY_REQ", more(t))
  BY <1>1
<1>3. /\ HeaderKept' /\ ReadAsMeant'
      /\ meant'["messageType"] = "PDELAY_REQ"
      /\ msgObuf'["correctionField"] =
            IF "correctionField" \in DOMAIN w(stamp)
            THEN w(stamp)["correctionField"] ELSE msgObuf["correctionField"]
  BY <1>2, TimestampRead, MessageRead DEF Inv, Field, msgPackPDelayReq
<1>4. QED
  BY <1>3 DEF Inv, CorrectionKnown, FollowUpCorrection,
     issuePDelayReq,
     msgPackPDelayReq

LEMMA FollowUpKeeps ==
    ASSUME Inv, issueFollowup, portState # "SLAVE" PROVE Inv'
<1> DEFINE id       == PrevSequenceId(sentSequenceId["SYNC"])
           w(stamp) == msgPackFollowUp(id, stamp)
           more(t)  == [sequenceId |-> id, timestamp |-> t]
<1>1. PICK t \in Clock :
          \E stamp \in fromInternalTime(t) :
              Send(w(stamp), "FOLLOW_UP", more(t))
  BY DEF issueFollowup
<1>2. PICK stamp \in fromInternalTime(t) :
          Send(w(stamp), "FOLLOW_UP", more(t))
  BY <1>1
<1>3. /\ HeaderKept' /\ ReadAsMeant'
      /\ meant'["messageType"] = "FOLLOW_UP"
      /\ msgObuf'["correctionField"] =
            IF "correctionField" \in DOMAIN w(stamp)
            THEN w(stamp)["correctionField"] ELSE msgObuf["correctionField"]
  BY <1>2, TimestampRead, MessageRead DEF Inv, Field, msgPackFollowUp
<1>4. QED
  BY <1>3 DEF Inv, CorrectionKnown, FollowUpCorrection,
     issueFollowup, msgPackFollowUp

LEMMA DelayRespKeeps ==
    ASSUME Inv, NEW header \in Requests, handleDelayReq(header) PROVE Inv'
<1> DEFINE w(stamp) == msgPackDelayResp(header, stamp)
           more(t)  == Answers(header, header.correctionField,
                               "logMinDelayReqInterval", t)
<1>1. PICK t \in Clock :
          \E stamp \in fromInternalTime(t) :
              Send(w(stamp), "DELAY_RESP", more(t))
  BY DEF handleDelayReq, issueDelayResp
<1>2. PICK stamp \in fromInternalTime(t) :
          Send(w(stamp), "DELAY_RESP", more(t))
  BY <1>1
<1>3. /\ HeaderKept' /\ ReadAsMeant'
      /\ meant'["messageType"] = "DELAY_RESP"
      /\ msgObuf'["correctionField"] =
            IF "correctionField" \in DOMAIN w(stamp)
            THEN w(stamp)["correctionField"] ELSE msgObuf["correctionField"]
  BY <1>2, TimestampRead, MessageRead DEF Inv, Field, msgPackDelayResp, Answers,
     handleDelayReq, Accepts
<1>4. QED
  BY <1>3 DEF Inv, CorrectionKnown, FollowUpCorrection, handleDelayReq,
     MayReceive, msgPackDelayResp

LEMMA PDelayRespKeeps ==
    ASSUME Inv, NEW header \in Requests, handlePDelayReq(header) PROVE Inv'
<1> DEFINE w(stamp) == msgPackPDelayResp(header, stamp)
           more(t)  == Answers(header, 0, "0x7F", t)
<1>1. PICK t \in Clock :
          \E stamp \in fromInternalTime(t) :
              Send(w(stamp), "PDELAY_RESP", more(t))
  BY DEF handlePDelayReq, issuePDelayResp
<1>2. PICK stamp \in fromInternalTime(t) :
          Send(w(stamp), "PDELAY_RESP", more(t))
  BY <1>1
<1>3. /\ HeaderKept' /\ ReadAsMeant'
      /\ meant'["messageType"] = "PDELAY_RESP"
      /\ msgObuf'["correctionField"] =
            IF "correctionField" \in DOMAIN w(stamp)
            THEN w(stamp)["correctionField"] ELSE msgObuf["correctionField"]
  BY <1>2, TimestampRead, MessageRead
     DEF Inv, Field, msgPackPDelayResp, Answers, handlePDelayReq, Accepts
<1>4. QED
  BY <1>3 DEF Inv, CorrectionKnown, FollowUpCorrection, handlePDelayReq,
     MayReceive, msgPackPDelayResp

LEMMA PDelayRespFollowUpKeeps ==
    ASSUME Inv, issuePDelayRespFollowUp, portState # "LISTENING"
    PROVE  Inv'
<1> DEFINE header   == PdelayReqHeader
           w(stamp) == msgPackPDelayRespFollowUp(header, stamp)
           more(t)  == Answers(header, header.correctionField, "0x7F", t)
<1>1. PICK t \in Clock :
          \E stamp \in fromInternalTime(t) :
              Send(w(stamp), "PDELAY_RESP_FOLLOW_UP", more(t))
  BY DEF issuePDelayRespFollowUp
<1>2. PICK stamp \in fromInternalTime(t) :
          Send(w(stamp), "PDELAY_RESP_FOLLOW_UP", more(t))
  BY <1>1
<1>3. /\ HeaderKept' /\ ReadAsMeant'
      /\ meant'["messageType"] = "PDELAY_RESP_FOLLOW_UP"
      /\ msgObuf'["correctionField"] =
            IF "correctionField" \in DOMAIN w(stamp)
            THEN w(stamp)["correctionField"] ELSE msgObuf["correctionField"]
  BY <1>2, TimestampRead, MessageRead
     DEF Inv, Field, msgPackPDelayRespFollowUp, Answers
<1>4. QED
  BY <1>3 DEF Inv, CorrectionKnown, FollowUpCorrection,
     issuePDelayRespFollowUp,
     msgPackPDelayRespFollowUp

(* A step that sends nothing and packs no header.                            *)
LEMMA SilentKeeps ==
    ASSUME Inv, UNCHANGED <<ethernet_mode, msgObuf, meant, answered>>,
           pending' \subseteq pending
    PROVE  Inv'
  BY DEF Inv, HeaderKept, ReadAsMeant, CorrectionKnown, FollowUpCorrection

LEMMA InitKeeps == ASSUME Inv, doInit PROVE Inv'
<1>1. /\ msgObuf'["domainNumber"] = domainNumber
      /\ msgObuf'["flagField"] = TWO_STEP_FLAG
      /\ msgObuf'["sourcePortIdentity"] = Self
      /\ msgObuf'["correctionField"] = 0
  BY DEF doInit, Over, msgPackHeader, Field
<1>2. meant' = Nothing
  BY DEF doInit
<1>3. DOMAIN meant' = {}
  BY <1>2 DEF Nothing
<1>4. QED
  BY <1>1, <1>2, <1>3
     DEF Inv, HeaderKept, ReadAsMeant, CorrectionKnown, FollowUpCorrection

LEMMA Inductive == Inv /\ [Next]_vars => Inv'
<1> SUFFICES ASSUME Inv, [Next]_vars PROVE Inv'
  OBVIOUS
<1>1. CASE doInit
  BY <1>1, InitKeeps
<1>2. ASSUME NEW state \in {"LISTENING", "SLAVE", "MASTER"}, toState(state)
      PROVE  Inv'
  BY <1>2, SilentKeeps DEF toState
<1>3. CASE issueFollowup
  BY <1>3, FollowUpKeeps, SilentKeeps DEF issueFollowup
<1>4. CASE issuePDelayRespFollowUp
  BY <1>4, PDelayRespFollowUpKeeps, SilentKeeps DEF issuePDelayRespFollowUp
<1>5. CASE UNCHANGED vars
  BY <1>5, SilentKeeps DEF vars
<1>6. QED
  BY <1>1, <1>2, <1>3, <1>4, <1>5, SyncKeeps, AnnounceKeeps, DelayReqKeeps,
     PDelayReqKeeps, DelayRespKeeps, PDelayRespKeeps DEF Next

-------------------------------------------------------------------------------
THEOREM InductiveInvariant == Spec => []Inv
  BY Initially, Inductive, PTL DEF Spec

(* What the receiver reads is what the sender meant.                         *)
THEOREM MessagesReadAsMeant == Spec => []ReadAsMeant
<1>1. Inv => ReadAsMeant
  BY DEF Inv
<1>2. QED
  BY <1>1, InductiveInvariant, PTL

(* No FollowUp carries a correction field older than its Sync.               *)
THEOREM FollowUpCorrectionIsRecent == Spec => []FollowUpCorrection
<1>1. Inv => FollowUpCorrection
  BY DEF Inv
<1>2. QED
  BY <1>1, InductiveInvariant, PTL
================================================================================
