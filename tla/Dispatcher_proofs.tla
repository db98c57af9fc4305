------------------------- MODULE Dispatcher_proofs -------------------------
(***************************************************************************)
(* Proofs about Dispatcher, for any set of names and of functions.  Every  *)
(* handler starts by clearing the thread-local objects, so that what a     *)
(* message causes depends on nothing but the message, its function, funcs_ *)
(* and suppress_exceptions_: the properties are inductive with the types.  *)
(***************************************************************************)
EXTENDS Dispatcher, TLAPS

HandlerState == [error : {"nil", "custom"}, resp : {"nil", "special"}, enabled : BOOLEAN]
Exceptions == {"none", "client_error", "std", "other", "handler_error"}

\* What a function throws is one of the exceptions dispatch_call() tells apart.
LEMMA ThrownType ==
  ASSUME NEW req \in Request, NEW beh \in Behaviour
  PROVE  Thrown(req, beh) \in Exceptions
<1>1. beh.end \in EndKinds
  BY EndsAssumption DEF Behaviour
<1> QED
  BY <1>1 DEF Thrown, Exceptions, EndKinds, Runs

\* The three ways to make a response.
LEMMA ResponseType ==
  /\ empty \in Response /\ throws \in Response
  /\ \A t \in Texts : make_error(t) \in Response
  /\ \A r \in Results : make_result(r) \in Response
BY DEF empty, throws, make_error, make_result, Response, Faults, Errors, Texts, Results

\* dispatch() gives a response for every message.
LEMMA DispatchType ==
  ASSUME NEW req \in Request, NEW beh \in Behaviour
  PROVE  dispatch(req, beh) \in Response
<1>1. /\ "not_found" \in Texts /\ "client_error" \in Texts
      /\ "exception" \in Texts /\ "unknown_exception" \in Texts
      /\ "value" \in Results /\ "nil" \in Results
  BY DEF Texts, Results
<1>2. dispatch_call(req, beh) \in Response
  <2>1. PICK x : x = Thrown(req, beh)
    OBVIOUS
  <2>2. x \in Exceptions
    BY <2>1, ThrownType
  <2> QED
    BY <1>1, <2>1, <2>2, ResponseType DEF dispatch_call, Exceptions
<1>3. dispatch_notification(req, beh) \in Response
  BY ResponseType DEF dispatch_notification
<1> QED
  BY <1>2, <1>3, ResponseType DEF dispatch

\* this_handler() after a function.
LEMMA HandlerType ==
  ASSUME NEW h \in HandlerState, NEW beh \in Behaviour
  PROVE  HandlerAfter(h, beh) \in HandlerState
BY DEF HandlerAfter, HandlerState, Behaviour

\* The response with what was left in this_handler().
LEMMA OverrideType ==
  ASSUME NEW resp \in Response, NEW h \in HandlerState
  PROVE  Override(resp, h) \in Response
BY DEF Override, capture_error, capture_result, Response, HandlerState, Errors, Texts,
       Results, Faults

\* What is packed.
LEMMA DataType ==
  ASSUME NEW resp \in Response
  PROVE  get_data(resp) \in Wire
BY DEF get_data, Reply, Response, Wire, Errors, Results, Texts
-----------------------------------------------------------------------------
\* The handler of a message leaves the thread-local objects, and records what it
\* sent, as their types say.
LEMMA HandleTypes ==
  ASSUME TypeOK, NEW req \in Request, NEW beh \in Behaviour, Handle(req, beh)
  PROVE  TypeOK'
<1> DEFINE bound == req.name \in DOMAIN funcs
           ran == req.kind # "other" /\ bound /\ Runs(req)
           h == IF ran THEN HandlerAfter(clear(thisHandler), beh) ELSE clear(thisHandler)
           resp == dispatch(req, beh)
           out == IF resp.fault = "no" /\ h.enabled THEN Override(resp, h) ELSE resp
           goesOn == out.fault = "no" /\ h.enabled
           sent == IF goesOn /\ ~out.empty THEN get_data(out) ELSE Nothing
<1>1. clear(thisHandler) \in HandlerState
  BY DEF clear, Cleared, HandlerState
<1>2. h \in HandlerState
  BY <1>1, HandlerType
<1>3. resp \in Response
  BY DispatchType
<1>4. out \in Response
  BY <1>2, <1>3, OverrideType
<1>5. sent \in Wire
  BY <1>4, DataType DEF Nothing, Wire
<1>6. beh.exit \in BOOLEAN /\ beh.stop \in BOOLEAN
  BY DEF Behaviour
<1>7. bound \in BOOLEAN /\ ran \in BOOLEAN /\ goesOn \in BOOLEAN
      /\ (bound /\ funcs[req.name]) \in BOOLEAN
  BY <1>2 DEF TypeOK, HandlerState
<1>8. last' = [handled |-> TRUE, req |-> req, beh |-> beh, bound |-> bound,
               returns |-> bound /\ funcs[req.name], sent |-> sent,
               close |-> goesOn /\ thisSession', stop |-> goesOn /\ thisServer']
  BY DEF Handle
<1>9. thisSession' \in BOOLEAN /\ thisServer' \in BOOLEAN
  BY <1>6, <1>7 DEF Handle
<1>10. last' \in Handled
  <2> HIDE DEF bound, sent, goesOn
  <2> QED
    BY <1>5, <1>7, <1>8, <1>9 DEF Handled
<1>11. thisHandler' \in HandlerState
  BY <1>2 DEF Handle
<1>12. fatal' \in Faults
  BY <1>4 DEF Handle, Response
<1>13. UNCHANGED <<suppress, funcs>>
  BY DEF Handle
<1> QED
  BY <1>9, <1>10, <1>11, <1>12, <1>13 DEF TypeOK, HandlerState

\* Types hold throughout.
LEMMA TypeStep == TypeOK /\ [Next]_vars => TypeOK'
<1> SUFFICES ASSUME TypeOK, [Next]_vars PROVE TypeOK'
  OBVIOUS
<1>1. ASSUME NEW n \in Name, unbind(n) PROVE TypeOK'
  BY <1>1 DEF TypeOK, unbind
<1>2. ASSUME NEW n \in Name, NEW returns \in BOOLEAN, bind(n, returns) PROVE TypeOK'
  BY <1>2 DEF TypeOK, bind
<1>3. ASSUME NEW req \in Request, NEW beh \in Behaviour, Handle(req, beh) PROVE TypeOK'
  BY <1>3, HandleTypes
<1>4. CASE UNCHANGED vars
  BY <1>4 DEF TypeOK, vars
<1> QED
  BY <1>1, <1>2, <1>3, <1>4 DEF Next

\* The members of the dispatcher and the thread-local objects keep their types.
THEOREM DispatcherTypes == Spec => []TypeOK
<1>1. ASSUME Init PROVE TypeOK
  <2>1. thisHandler \in HandlerState
    BY <1>1 DEF Init, Cleared, HandlerState
  <2>2. DOMAIN funcs = {}
    BY <1>1 DEF Init
  <2> QED
    BY <1>1, <2>1, <2>2 DEF Init, TypeOK, HandlerState, Faults
<1> QED
  BY <1>1, TypeStep, PTL DEF Spec
-----------------------------------------------------------------------------
\* With suppression, dispatch() throws only for a message that does not convert.
LEMMA DispatchThrows ==
  ASSUME NEW req \in Request, NEW beh \in Behaviour, suppress,
         dispatch(req, beh).fault = "exception"
  PROVE  req.args = "malformed"
<1>1. empty.fault = "no" /\ \A x : make_error(x).fault = "no" /\ make_result(x).fault = "no"
  BY DEF empty, make_error, make_result
<1>2. CASE req.kind = "call"
  <2>1. dispatch_call(req, beh).fault = "exception"
    BY <1>2 DEF dispatch
  <2>2. PICK x : x = Thrown(req, beh)
    OBVIOUS
  <2>3. x \in Exceptions
    BY <2>2, ThrownType
  <2> QED
    BY <1>1, <2>1, <2>2, <2>3 DEF dispatch_call, Exceptions
<1>3. CASE req.kind = "notification"
  BY <1>1, <1>3 DEF dispatch, dispatch_notification
<1>4. CASE req.kind = "other"
  BY <1>1, <1>4 DEF dispatch
<1> QED
  BY <1>2, <1>3, <1>4 DEF Request

\* Putting the objects of this_handler() into a response throws nothing.
LEMMA OverrideThrows ==
  ASSUME NEW resp \in Response, NEW h \in HandlerState, resp.fault = "no"
  PROVE  Override(resp, h).fault # "exception"
BY DEF Override, capture_error, capture_result, Response

\* SuppressedNeverThrows, for every name, every function and every message.
THEOREM SuppressedHolds == Spec => []SuppressedNeverThrows
<1>1. Init => SuppressedNeverThrows
  BY DEF Init, SuppressedNeverThrows
<1>2. TypeOK /\ SuppressedNeverThrows /\ [Next]_vars => SuppressedNeverThrows'
  <2> SUFFICES ASSUME TypeOK, SuppressedNeverThrows, [Next]_vars
               PROVE  SuppressedNeverThrows'
    OBVIOUS
  <2>1. ASSUME NEW n \in Name, unbind(n) \/ \E r \in BOOLEAN : bind(n, r)
        PROVE  SuppressedNeverThrows'
    BY <2>1 DEF unbind, bind, SuppressedNeverThrows
  <2>2. ASSUME NEW req \in Request, NEW beh \in Behaviour, Handle(req, beh),
               suppress, fatal' = "exception"
        PROVE  req.args = "malformed"
    <3>1. clear(thisHandler) \in HandlerState
      BY DEF clear, Cleared, HandlerState
    <3>2. HandlerAfter(clear(thisHandler), beh) \in HandlerState
      BY <3>1, HandlerType
    <3>3. PICK h \in HandlerState :
            fatal' = (IF dispatch(req, beh).fault = "no" /\ h.enabled
                      THEN Override(dispatch(req, beh), h) ELSE dispatch(req, beh)).fault
      BY <2>2, <3>1, <3>2, Zenon DEF Handle
    <3>4. dispatch(req, beh) \in Response
      BY DispatchType
    <3>5. dispatch(req, beh).fault = "exception"
      BY <2>2, <3>3, <3>4, OverrideThrows
    <3> QED
      BY <2>2, <3>5, DispatchThrows
  <2>3. ASSUME NEW req \in Request, NEW beh \in Behaviour, Handle(req, beh)
        PROVE  SuppressedNeverThrows'
    <3>1. last'.req = req /\ suppress' = suppress
      BY <2>3 DEF Handle
    <3> QED
      BY <2>2, <2>3, <3>1 DEF SuppressedNeverThrows
  <2>4. CASE UNCHANGED vars
    BY <2>4 DEF vars, SuppressedNeverThrows
  <2> QED
    BY <2>1, <2>3, <2>4 DEF Next
<1> QED
  BY <1>1, <1>2, DispatcherTypes, PTL DEF Spec

\* ExitOnlyWhenAsked, for every name, every function and every message.
THEOREM ExitHolds == Spec => []ExitOnlyWhenAsked
<1>1. Init => ExitOnlyWhenAsked
  BY DEF Init, ExitOnlyWhenAsked, NoLast
<1>2. ExitOnlyWhenAsked /\ [Next]_vars => ExitOnlyWhenAsked'
  <2> SUFFICES ASSUME ExitOnlyWhenAsked, [Next]_vars PROVE ExitOnlyWhenAsked'
    OBVIOUS
  <2>1. ASSUME NEW n \in Name, unbind(n) \/ \E r \in BOOLEAN : bind(n, r)
        PROVE  ExitOnlyWhenAsked'
    BY <2>1 DEF unbind, bind, ExitOnlyWhenAsked
  <2>2. ASSUME NEW req \in Request, NEW beh \in Behaviour, Handle(req, beh)
        PROVE  ExitOnlyWhenAsked'
    <3>1. /\ last'.beh = beh
          /\ last'.close => thisSession'
          /\ last'.stop => thisServer'
      BY <2>2 DEF Handle
    <3>2. (thisSession' => beh.exit) /\ (thisServer' => beh.stop)
      BY <2>2 DEF Handle
    <3> QED
      BY <3>1, <3>2 DEF ExitOnlyWhenAsked
  <2>3. CASE UNCHANGED vars
    BY <2>3 DEF vars, ExitOnlyWhenAsked
  <2> QED
    BY <2>1, <2>2, <2>3 DEF Next
<1> QED
  BY <1>1, <1>2, PTL DEF Spec
-----------------------------------------------------------------------------
\* What a message and its function are, and whether its name is bound.
Facts(req, beh, bound, returns) ==
  [req |-> req, beh |-> beh, bound |-> bound, returns |-> returns]

\* this_handler() after a function, from the cleared state.
LEMMA HandlerLeft ==
  ASSUME NEW beh \in Behaviour
  PROVE  /\ HandlerAfter(Cleared, beh).enabled = ~beh.disable
         /\ HandlerAfter(Cleared, beh).error
              = IF beh.end \in {"error_custom", "caught"} THEN "custom" ELSE "nil"
         /\ HandlerAfter(Cleared, beh).resp
              = IF beh.respond = "special" THEN "special" ELSE "nil"
<1>1. beh.disable \in BOOLEAN
  BY DEF Behaviour
<1> QED
  BY <1>1 DEF HandlerAfter, Cleared

\* The fields of the responses.
LEMMA Fields ==
  /\ empty.fault = "no" /\ empty.empty = TRUE /\ empty.error = "null" /\ empty.result = "null"
  /\ throws.fault = "exception"
  /\ \A t : /\ make_error(t).fault = "no" /\ make_error(t).empty = FALSE
            /\ make_error(t).error = t /\ make_error(t).result = "null"
            /\ make_result(t).fault = "no" /\ make_result(t).empty = FALSE
            /\ make_result(t).error = "null" /\ make_result(t).result = t
BY DEF empty, throws, make_error, make_result

\* The response to a call, by what the function throws.
LEMMA CallResponse ==
  ASSUME NEW req \in Request, NEW beh \in Behaviour, req.kind = "call"
  PROVE  LET r == dispatch(req, beh)
             value == IF funcs[req.name] THEN "value" ELSE "nil"
         IN  /\ req.args = "malformed" => r = throws
             /\ req.args # "malformed" /\ req.name \notin DOMAIN funcs => r = make_error("not_found")
             /\ req.name \in DOMAIN funcs =>
                  /\ req.args = "arity" => r = make_error("client_error")
                  /\ req.args = "type" =>
                       r = IF suppress THEN make_error("exception") ELSE throws
                  /\ req.args = "ok" =>
                       /\ beh.end \in {"return", "caught"} => r = make_result(value)
                       /\ beh.end = "std" =>
                            r = IF suppress THEN make_error("exception") ELSE throws
                       /\ beh.end = "other" =>
                            r = IF suppress THEN make_error("unknown_exception") ELSE throws
                       /\ beh.end \in {"error_nil", "error_custom"} => r = make_error("not_found")
<1>1. dispatch(req, beh) = dispatch_call(req, beh)
  BY DEF dispatch
<1> QED
  BY <1>1 DEF dispatch_call, Thrown, Runs

\* The response to a notification.
LEMMA NotificationResponse ==
  ASSUME NEW req \in Request, NEW beh \in Behaviour, req.kind = "notification"
  PROVE  dispatch(req, beh) =
           IF \/ req.args = "malformed"
              \/ /\ req.name \in DOMAIN funcs /\ ~suppress
                 /\ \/ req.args \in {"arity", "type"}
                    \/ req.args = "ok" /\ beh.end \in {"std", "other"}
           THEN throws ELSE empty
<1>1. dispatch(req, beh) = dispatch_notification(req, beh)
  BY DEF dispatch
<1>2. req.args \in {"ok", "arity", "type", "malformed"}
  BY DEF Request
<1>3. Thrown(req, beh) \in {"client_error", "std", "other"} <=>
        req.args \in {"arity", "type"} \/ (req.args = "ok" /\ beh.end \in {"std", "other"})
  BY <1>2 DEF Thrown, Runs
<1> QED
  BY <1>1, <1>3 DEF dispatch_notification

\* The outcome of a handler, in terms of the message and its function alone.
LEMMA OutcomeOfHandle ==
  ASSUME TypeOK, NEW req \in Request, NEW beh \in Behaviour, Handle(req, beh)
  PROVE  OutcomeIsOwn'
<1> DEFINE bound == req.name \in DOMAIN funcs
           ran == req.kind # "other" /\ bound /\ Runs(req)
           h == IF ran THEN HandlerAfter(Cleared, beh) ELSE Cleared
           resp == dispatch(req, beh)
           out == IF resp.fault = "no" /\ h.enabled THEN Override(resp, h) ELSE resp
           goesOn == out.fault = "no" /\ h.enabled
           sent == IF goesOn /\ ~out.empty THEN get_data(out) ELSE Nothing
           returns == bound /\ funcs[req.name]
           l == Facts(req, beh, bound, returns)
           doc == Documented(l)
<1>1. /\ last'.req = req /\ last'.beh = beh /\ last'.bound = bound
      /\ last'.returns = returns /\ last'.sent = sent /\ last'.handled
      /\ fatal' = out.fault /\ suppress' = suppress
  BY DEF Handle, clear
<1>2. /\ beh.end \in EndKinds /\ beh.respond \in RespondKinds /\ beh.disable \in BOOLEAN
      /\ req.kind \in {"call", "notification", "other"}
      /\ req.args \in {"ok", "arity", "type", "malformed"}
  BY EndsAssumption, RespondsAssumption DEF Behaviour, Request
<1>3. l.req = req /\ l.beh = beh /\ l.bound = bound /\ l.returns = returns
  BY DEF Facts
<1>4. Fate(last)' = Fate(l) /\ Answer(last)' = Answer(l)
  <2>1. Documented(last)' = Documented(l)
    BY <1>1, <1>3 DEF Documented
  <2> QED
    BY <1>1, <1>3, <2>1 DEF Fate, Answer
<1>5. SUFFICES out.fault = Fate(l) /\ sent = IF out.fault = "no" THEN Answer(l) ELSE Nothing
  BY <1>1, <1>4 DEF OutcomeIsOwn
<1>6. Cleared.enabled /\ Cleared.error = "nil" /\ Cleared.resp = "nil"
  BY DEF Cleared
<1>7. ran => /\ h.enabled = ~beh.disable
             /\ h.error = IF beh.end \in {"error_custom", "caught"} THEN "custom" ELSE "nil"
             /\ h.resp = IF beh.respond = "special" THEN "special" ELSE "nil"
  BY HandlerLeft
<1>8. ~ran => h.enabled /\ h.error = "nil" /\ h.resp = "nil"
  BY <1>6
<1>9. resp \in Response /\ Nothing.reply = FALSE
  BY DispatchType DEF Nothing
<1>10. CASE resp.fault # "no"
  <2>1. out = resp /\ sent = Nothing
    BY <1>10
  <2>2. resp = throws /\ Fate(l) = "exception"
    <3>1. CASE req.kind = "call"
      <4>1. CASE req.args = "malformed"
        BY <1>3, <3>1, <4>1, CallResponse DEF Fate
      <4>2. CASE req.args = "type"
        <5>1. bound /\ ~suppress /\ resp = throws
          BY <1>10, <3>1, <4>2, CallResponse, Fields
        <5> QED
          BY <1>3, <3>1, <4>2, <5>1 DEF Fate
      <4>3. CASE req.args = "ok"
        <5>1. bound
          BY <1>10, <3>1, <4>3, CallResponse, Fields
        <5>2. beh.end \in {"std", "other"}
          BY <1>2, <1>10, <3>1, <4>3, <5>1, CallResponse, Fields DEF EndKinds
        <5>3. ~suppress /\ resp = throws
          BY <1>10, <3>1, <4>3, <5>1, <5>2, CallResponse, Fields
        <5> QED
          BY <1>3, <3>1, <4>3, <5>1, <5>2, <5>3 DEF Fate
      <4>4. CASE req.args = "arity"
        BY <1>10, <3>1, <4>4, CallResponse, Fields
      <4> QED
        BY <1>2, <4>1, <4>2, <4>3, <4>4
    <3>2. CASE req.kind = "notification"
      BY <1>2, <1>3, <1>10, <3>2, NotificationResponse, Fields DEF Fate
    <3>3. CASE req.kind = "other"
      BY <1>10, <3>3, Fields DEF dispatch
    <3> QED
      BY <1>2, <3>1, <3>2, <3>3
  <2> QED
    BY <2>1, <2>2, Fields
<1>11. CASE resp.fault = "no" /\ req.kind # "call"
  <2>1. resp = empty
    BY <1>2, <1>11, NotificationResponse, Fields DEF dispatch
  <2>2. doc = Nothing /\ Answer(l) = Nothing
    BY <1>3, <1>9, <1>11 DEF Documented, Answer
  <2>3. out.fault = Fate(l) /\ (out.fault = "no" => out.empty)
    <3>1. Fate(l) = IF ran /\ ~beh.disable /\ beh.end \in {"error_custom", "caught"}
                    THEN "null_response" ELSE "no"
      <4>1. CASE req.kind = "other"
        BY <1>3, <4>1 DEF Fate
      <4>2. CASE req.kind = "notification"
        <5>1. /\ req.args # "malformed"
              /\ bound /\ ~suppress => /\ req.args \notin {"arity", "type"}
                                       /\ req.args = "ok" => beh.end \notin {"std", "other"}
          BY <1>11, <4>2, NotificationResponse, Fields
        <5> QED
          BY <1>3, <4>2, <5>1 DEF Fate, Runs
      <4> QED
        BY <1>2, <1>11, <4>1, <4>2
    <3>2. CASE ran /\ ~beh.disable /\ beh.end \in {"error_custom", "caught"}
      BY <1>7, <1>9, <2>1, <3>1, <3>2, Fields DEF Override, capture_error, Response
    <3>3. CASE ~ (ran /\ ~beh.disable /\ beh.end \in {"error_custom", "caught"})
      <4>1. h.enabled => h.error = "nil"
        BY <1>2, <1>7, <1>8, <3>3
      <4> QED
        BY <1>9, <2>1, <3>1, <3>3, <4>1, Fields DEF Override, capture_result, Response
    <3> QED
      BY <3>2, <3>3
  <2> QED
    BY <2>2, <2>3
<1>12. CASE resp.fault = "no" /\ req.kind = "call" /\ ~ran
  <2>1. out = resp /\ goesOn
    BY <1>8, <1>12 DEF Override
  <2>2. PICK t \in Texts : resp = make_error(t) /\ doc = Reply(t, "nil")
    <3>1. CASE ~bound
      BY <1>2, <1>3, <1>12, <3>1, CallResponse, Fields DEF Documented, Texts
    <3>2. CASE bound /\ req.args = "arity"
      BY <1>3, <1>12, <3>2, CallResponse DEF Documented, Texts
    <3>3. CASE bound /\ req.args = "type"
      BY <1>3, <1>12, <3>3, CallResponse, Fields DEF Documented, Texts
    <3>4. req.args # "malformed" /\ (bound => req.args # "ok")
      BY <1>12, CallResponse, Fields DEF Runs
    <3> QED
      BY <1>2, <3>1, <3>2, <3>3, <3>4
  <2>3. Fate(l) = "no"
    BY <1>2, <1>3, <1>12, CallResponse, Fields DEF Fate, Runs
  <2>4. Answer(l) = doc
    BY <1>3, <1>12 DEF Answer, Runs
  <2>5. get_data(resp) = Reply(t, "nil")
    BY <2>2, Fields DEF get_data, Texts
  <2> QED
    BY <1>12, <2>1, <2>2, <2>3, <2>4, <2>5, Fields
<1>13. CASE resp.fault = "no" /\ req.kind = "call" /\ ran /\ beh.disable
  <2>1. out = resp /\ sent = Nothing
    BY <1>7, <1>13
  <2>2. doc = Nothing /\ Answer(l) = Nothing
    BY <1>3, <1>9, <1>13 DEF Documented, Answer, Runs
  <2>3. Fate(l) = "no"
    BY <1>2, <1>3, <1>13, CallResponse, Fields DEF Fate, Runs
  <2> QED
    BY <1>13, <2>1, <2>2, <2>3
<1>14. CASE resp.fault = "no" /\ req.kind = "call" /\ ran /\ ~beh.disable
  <2>1. bound /\ req.args = "ok" /\ out = Override(resp, h) /\ h.enabled
    BY <1>7, <1>14 DEF Runs
  <2>2. doc.reply
    BY <1>3, <1>14, <2>1 DEF Documented, Reply
  <2>3. CASE beh.end = "caught"
    <3>1. resp.error = "null" /\ h.error = "custom"
      BY <1>7, <1>14, <2>1, <2>3, CallResponse, Fields
    <3>2. out.fault = "null_response"
      BY <1>9, <2>1, <3>1 DEF Override, capture_error, Response
    <3>3. Fate(l) = "null_response"
      BY <1>3, <1>14, <2>1, <2>3 DEF Fate
    <3> QED
      BY <3>2, <3>3
  <2>4. CASE beh.end # "caught"
    <3>1. Fate(l) = "no"
      BY <1>2, <1>3, <1>14, <2>1, <2>4, CallResponse, Fields DEF Fate, EndKinds
    <3> DEFINE value == IF funcs[req.name] THEN "value" ELSE "nil"
               special == beh.respond = "special"
    <3>2. CASE beh.end = "return"
      <4>1. resp = make_result(value) /\ h.error = "nil"
        BY <1>7, <1>14, <2>1, <3>2, CallResponse
      <4>2. /\ out.fault = "no" /\ ~out.empty /\ out.error = "null"
            /\ out.result = IF special THEN "special" ELSE value
        BY <1>7, <1>9, <1>14, <2>1, <4>1, Fields DEF Override, capture_result, Response
      <4>3. sent = Reply("nil", IF special THEN "special" ELSE value)
        BY <2>1, <4>2 DEF get_data
      <4>4. Answer(l) = Reply("nil", IF special THEN "special" ELSE value)
        BY <1>2, <1>3, <1>14, <2>1, <2>2, <3>2 DEF Answer, Documented, Reply, RespondKinds
      <4> QED
        BY <3>1, <4>2, <4>3, <4>4
    <3>3. CASE beh.end = "error_custom"
      <4>1. resp = make_error("not_found") /\ h.error = "custom"
        BY <1>7, <1>14, <2>1, <3>3, CallResponse
      <4>2. /\ out.fault = "no" /\ ~out.empty /\ out.error = "custom" /\ out.result = "null"
        BY <1>9, <2>1, <4>1, Fields DEF Override, capture_error, Response
      <4>3. sent = Reply("custom", "nil")
        BY <2>1, <4>2 DEF get_data
      <4>4. Answer(l) = Reply("custom", "nil")
        BY <1>3, <1>14, <2>1, <2>2, <3>3 DEF Answer, Documented, Reply
      <4> QED
        BY <3>1, <4>2, <4>3, <4>4
    <3>4. CASE beh.end \in {"std", "other", "error_nil"}
      <4>1. PICK t : t = CASE beh.end = "std" -> "exception"
                           [] beh.end = "other" -> "unknown_exception"
                           [] OTHER -> "not_found"
        OBVIOUS
      <4>2. resp = make_error(t) /\ h.error = "nil" /\ t # "null"
        BY <1>7, <1>14, <2>1, <3>4, <4>1, CallResponse, Fields
      <4>3. /\ out.fault = "no" /\ ~out.empty /\ out.error = t
            /\ out.result = IF special THEN "special" ELSE "null"
        BY <1>7, <1>9, <1>14, <2>1, <4>2, Fields DEF Override, capture_result, Response
      <4>4. sent = Reply(t, IF special THEN "special" ELSE "nil")
        BY <2>1, <4>2, <4>3 DEF get_data
      <4>5. Answer(l) = Reply(t, IF special THEN "special" ELSE "nil")
        BY <1>2, <1>3, <1>14, <2>1, <2>2, <3>4, <4>1 DEF Answer, Documented, Reply, RespondKinds
      <4> QED
        BY <3>1, <4>3, <4>4, <4>5
    <3> QED
      BY <1>2, <2>4, <3>2, <3>3, <3>4 DEF EndKinds
  <2> QED
    BY <2>3, <2>4
<1> QED
  BY <1>2, <1>10, <1>11, <1>12, <1>13, <1>14

\* OutcomeIsOwn, for every sequence of messages, every set of names and every
\* function, also one that gives a nil object to respond() or respond_error().
THEOREM OutcomesAreOwn == Spec => []OutcomeIsOwn
<1>1. Init => OutcomeIsOwn
  BY DEF Init, OutcomeIsOwn, NoLast
<1>2. TypeOK /\ OutcomeIsOwn /\ [Next]_vars => OutcomeIsOwn'
  <2> SUFFICES ASSUME TypeOK, OutcomeIsOwn, [Next]_vars PROVE OutcomeIsOwn'
    OBVIOUS
  <2>1. ASSUME UNCHANGED <<last, fatal, suppress>> PROVE OutcomeIsOwn'
    <3>1. Fate(last)' = Fate(last) /\ Answer(last)' = Answer(last)
      BY <2>1 DEF Fate, Answer, Documented
    <3> QED
      BY <2>1, <3>1 DEF OutcomeIsOwn
  <2>2. ASSUME NEW n \in Name, unbind(n) \/ \E r \in BOOLEAN : bind(n, r)
        PROVE  OutcomeIsOwn'
    BY <2>1, <2>2 DEF unbind, bind
  <2>3. ASSUME NEW req \in Request, NEW beh \in Behaviour, Handle(req, beh)
        PROVE  OutcomeIsOwn'
    BY <2>3, OutcomeOfHandle
  <2>4. CASE UNCHANGED vars
    BY <2>1, <2>4 DEF vars
  <2> QED
    BY <2>2, <2>3, <2>4 DEF Next
<1> QED
  BY <1>1, <1>2, DispatcherTypes, PTL DEF Spec
=============================================================================
