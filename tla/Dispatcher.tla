----------------------------- MODULE Dispatcher -----------------------------
(***************************************************************************)
(* How one worker thread of the server handles a message: the handler that *)
(* server_session::do_read posts (lib/rpc/detail/server_session.cc), the   *)
(* dispatcher it calls (lib/rpc/dispatcher.cc, include/rpc/dispatcher.inl) *)
(* and the response it builds (lib/rpc/detail/response.cc), together with  *)
(* the thread-local objects through which a bound function speaks to its   *)
(* server: this_handler(), this_session() and this_server().               *)
(*                                                                         *)
(* Objects are told apart by what they are: "nil", the "value" a function  *)
(* returns, the object "special" given to respond(), the object "custom"   *)
(* given to respond_error(), and the texts rpclib makes up for an error.   *)
(***************************************************************************)
EXTENDS Naturals

CONSTANTS
  Name,          \* names of functions
  Responds,      \* what functions do with respond(): a subset of RespondKinds
  Ends           \* how functions end: a subset of EndKinds

\* A function does not call respond(), or calls it with nil or another object.
RespondKinds == {"no", "nil", "special"}

\* A function returns, throws a std::exception or something else, calls
\* respond_error() with nil or another object, or calls respond_error(),
\* catches what it throws, and returns.
EndKinds == {"return", "std", "other", "error_nil", "error_custom", "caught"}

ASSUME RespondsAssumption == Responds \subseteq RespondKinds
ASSUME EndsAssumption == Ends \subseteq EndKinds

\* What a function does when it is called.
Behaviour == [respond : Responds, disable : BOOLEAN, exit : BOOLEAN, stop : BOOLEAN,
              end : Ends]

\* A message: a call, a notification, or an array of some other size; the
\* name in it; and whether its arguments fit in number and in type, or its
\* parts do not even convert to call_t or notification_t.
Request == [kind : {"call", "notification", "other"}, name : Name,
            args : {"ok", "arity", "type", "malformed"}]

VARIABLES
  suppress,      \* suppress_exceptions_ of the session
  funcs,         \* funcs_: the bound names, and whether they return a value
  thisHandler,   \* this_handler(): error_, resp_ and resp_enabled_
  thisSession,   \* this_session().exit_
  thisServer,    \* this_server().stopping_
  fatal,         \* "exception" left the handler, or a "null_response" was used
  last           \* the last message handled: what it was and what was sent

vars == <<suppress, funcs, thisHandler, thisSession, thisServer, fatal, last>>

\* A response: its shared_ptrs are "null" or hold an object.  The fault tells
\* that there is none: an exception is on its way, or a null was dereferenced.
Texts == {"not_found", "client_error", "exception", "unknown_exception"}
Errors == {"null", "custom"} \cup Texts
Results == {"null", "nil", "value", "special"}
Faults == {"no", "exception", "null_response"}
Response == [fault : Faults, empty : BOOLEAN, error : Errors, result : Results]

\* What goes out: whether a reply does, and the error and result in it.
Wire == [reply : BOOLEAN, error : {"nil", "custom"} \cup Texts,
         result : {"nil", "value", "special"}]
Nothing == [reply |-> FALSE, error |-> "nil", result |-> "nil"]
Reply(error, result) == [reply |-> TRUE, error |-> error, result |-> result]

NoLast == [handled |-> FALSE]
Handled == [handled : {TRUE}, req : Request, beh : Behaviour, bound : BOOLEAN,
            returns : BOOLEAN, sent : Wire, close : BOOLEAN, stop : BOOLEAN]

TypeOK ==
  /\ suppress \in BOOLEAN
  /\ DOMAIN funcs \subseteq Name
  /\ \A n \in DOMAIN funcs : funcs[n] \in BOOLEAN
  /\ thisHandler \in [error : {"nil", "custom"}, resp : {"nil", "special"},
                      enabled : BOOLEAN]
  /\ thisSession \in BOOLEAN
  /\ thisServer \in BOOLEAN
  /\ fatal \in Faults
  /\ last = NoLast \/ last \in Handled

Cleared == [error |-> "nil", resp |-> "nil", enabled |-> TRUE]

\* The thread-locals are those of a new thread.
Init ==
  /\ suppress \in BOOLEAN
  /\ funcs = [n \in {} |-> TRUE]
  /\ thisHandler = Cleared
  /\ thisSession = FALSE
  /\ thisServer = FALSE
  /\ fatal = "no"
  /\ last = NoLast
-----------------------------------------------------------------------------
(* The registry.                                                           *)

\* bind(): enforce_unique_name() throws when the name is taken.
bind(n, returns) ==
  /\ fatal = "no"
  /\ n \notin DOMAIN funcs
  /\ funcs' = [m \in DOMAIN funcs \cup {n} |-> IF m = n THEN returns ELSE funcs[m]]
  /\ UNCHANGED <<suppress, thisHandler, thisSession, thisServer, fatal, last>>

unbind(n) ==
  /\ fatal = "no"
  /\ n \in DOMAIN funcs
  /\ funcs' = [m \in DOMAIN funcs \ {n} |-> funcs[m]]
  /\ UNCHANGED <<suppress, thisHandler, thisSession, thisServer, fatal, last>>
-----------------------------------------------------------------------------
(* Calling a function.  h is the state of this_handler() before the call.  *)

\* The wrapper checks the number of arguments and converts them first.
Runs(req) == req.args = "ok"

\* this_handler() after the function has run.
HandlerAfter(h, beh) ==
  [error |-> IF beh.end \in {"error_custom", "caught"} THEN "custom" ELSE
             IF beh.end = "error_nil" THEN "nil" ELSE h.error,
   resp |-> CASE beh.respond = "special" -> "special"
              [] beh.respond = "nil" -> "nil"
              [] OTHER -> h.resp,
   enabled |-> h.enabled /\ ~beh.disable]

\* What comes out of (it_func->second)(args): an exception, or "none".
Thrown(req, beh) ==
  CASE req.args = "arity" -> "client_error"
    [] req.args = "type" -> "std"
    [] Runs(req) /\ beh.end \in {"std", "other"} -> beh.end
    [] Runs(req) /\ beh.end \in {"error_nil", "error_custom"} -> "handler_error"
    [] OTHER -> "none"

empty == [fault |-> "no", empty |-> TRUE, error |-> "null", result |-> "null"]
make_error(text) == [empty EXCEPT !.empty = FALSE, !.error = text]
make_result(obj) == [empty EXCEPT !.empty = FALSE, !.result = obj]
throws == [empty EXCEPT !.fault = "exception"]

\* dispatch_call(): a response, or an exception.  The conversion of the message
\* is outside the try block.  A handler_error falls through to the last return,
\* whose error the session replaces.
dispatch_call(req, beh) ==
  IF req.args = "malformed" THEN throws
  ELSE IF req.name \notin DOMAIN funcs
  THEN make_error("not_found")
  ELSE LET x == Thrown(req, beh)
       IN  CASE x = "none" -> make_result(IF funcs[req.name] THEN "value" ELSE "nil")
             [] x = "client_error" -> make_error("client_error")
             [] x = "std" -> IF suppress THEN make_error("exception") ELSE throws
             [] x = "handler_error" -> make_error("not_found")
             [] x = "other" -> IF suppress THEN make_error("unknown_exception") ELSE throws

\* Mutant of dispatch_notification(): nothing is suppressed.
dispatch_notification_rethrow(req, beh) ==
  IF /\ req.name \in DOMAIN funcs
     /\ Thrown(req, beh) \in {"client_error", "std", "other"}
  THEN throws
  ELSE IF req.args = "malformed" THEN throws ELSE empty

\* dispatch_notification(): the catch-all takes a client_error too.
dispatch_notification(req, beh) ==
  IF /\ req.name \in DOMAIN funcs
     /\ Thrown(req, beh) \in {"client_error", "std", "other"}
     /\ ~suppress
  THEN throws
  ELSE IF req.args = "malformed" THEN throws ELSE empty

dispatch(req, beh) ==
  CASE req.kind = "call" -> dispatch_call(req, beh)
    [] req.kind = "notification" -> dispatch_notification(req, beh)
    [] OTHER -> empty

\* capture_error() dereferences error_, also when it is null.
capture_error(resp, obj) ==
  IF resp.error = "null" THEN [resp EXCEPT !.fault = "null_response"]
                         ELSE [resp EXCEPT !.error = obj]
capture_result(resp, obj) == [resp EXCEPT !.result = obj]

\* Mutant of get_data(): a null error is not packed as nil.
get_data_raw(resp) ==
  Reply(resp.error, IF resp.result = "null" THEN "nil" ELSE resp.result)

\* get_data(): nulls are packed as nil.
get_data(resp) ==
  Reply(IF resp.error = "null" THEN "nil" ELSE resp.error,
        IF resp.result = "null" THEN "nil" ELSE resp.result)
-----------------------------------------------------------------------------
(* The posted handler.                                                     *)

\* Mutant of this_handler_t::clear(): the special response is left over.
clear_partly(h) == [error |-> "nil", resp |-> h.resp, enabled |-> TRUE]

\* this_handler_t::clear()
clear(h) == Cleared

\* The response with what the function left in this_handler(): an error wins
\* over a special response.
Override(resp, h) ==
  IF h.error # "nil" THEN capture_error(resp, h.error)
  ELSE IF h.resp # "nil" THEN capture_result(resp, h.resp)
  ELSE resp

\* Mutant of the handler: this_session().clear() is missing.
handle_no_session_clear(req, beh) ==
  LET bound == req.name \in DOMAIN funcs
      ran == req.kind # "other" /\ bound /\ Runs(req)
      h == IF ran THEN HandlerAfter(clear(thisHandler), beh) ELSE clear(thisHandler)
      resp == dispatch(req, beh)
      out == IF resp.fault = "no" /\ h.enabled THEN Override(resp, h) ELSE resp
      goesOn == out.fault = "no" /\ h.enabled
  IN  /\ fatal = "no"
      /\ thisHandler' = h
      /\ thisSession' = (thisSession \/ (ran /\ beh.exit))
      /\ thisServer' = (ran /\ beh.stop)
      /\ fatal' = out.fault
      /\ last' = [handled |-> TRUE, req |-> req, beh |-> beh, bound |-> bound,
                  returns |-> bound /\ funcs[req.name],
                  sent |-> IF goesOn /\ ~out.empty THEN get_data(out) ELSE Nothing,
                  close |-> goesOn /\ thisSession',
                  stop |-> goesOn /\ thisServer']
      /\ UNCHANGED <<suppress, funcs>>

\* A message is handled from clear() to the last post.  With the response
\* disabled, the handler returns before it looks at exit_ and stopping().
Handle(req, beh) ==
  LET bound == req.name \in DOMAIN funcs
      ran == req.kind # "other" /\ bound /\ Runs(req)
      h == IF ran THEN HandlerAfter(clear(thisHandler), beh) ELSE clear(thisHandler)
      resp == dispatch(req, beh)
      out == IF resp.fault = "no" /\ h.enabled THEN Override(resp, h) ELSE resp
      goesOn == out.fault = "no" /\ h.enabled
  IN  /\ fatal = "no"
      /\ thisHandler' = h
      /\ thisSession' = (ran /\ beh.exit)
      /\ thisServer' = (ran /\ beh.stop)
      /\ fatal' = out.fault
      /\ last' = [handled |-> TRUE, req |-> req, beh |-> beh, bound |-> bound,
                  returns |-> bound /\ funcs[req.name],
                  sent |-> IF goesOn /\ ~out.empty THEN get_data(out) ELSE Nothing,
                  close |-> goesOn /\ thisSession',
                  stop |-> goesOn /\ thisServer']
      /\ UNCHANGED <<suppress, funcs>>

Next ==
  \/ \E n \in Name : unbind(n) \/ \E returns \in BOOLEAN : bind(n, returns)
  \/ \E req \in Request, beh \in Behaviour : Handle(req, beh)

Spec == Init /\ [][Next]_vars
-----------------------------------------------------------------------------
(* Properties.                                                             *)

\* What the documentation of this_handler(), suppress_exceptions() and the
\* protocol says goes out for the message l, whatever was handled before it
\* on the same thread.
Documented(l) ==
  LET b == l.beh
      ran == l.bound /\ l.req.args = "ok"
      error == IF ~l.bound THEN "not_found" ELSE
               CASE l.req.args = "arity" -> "client_error"
                 [] l.req.args = "type" -> "exception"
                 [] ran /\ b.end = "std" -> "exception"
                 [] ran /\ b.end = "other" -> "unknown_exception"
                 [] ran /\ b.end \in {"error_nil", "error_custom", "caught"} -> "custom"
                 [] OTHER -> "nil"
      result == CASE b.respond = "special" -> "special"
                  [] b.respond = "nil" -> "nil"
                  [] OTHER -> IF l.returns THEN "value" ELSE "nil"
  IN  IF l.req.kind # "call" \/ (ran /\ b.disable)
      THEN Nothing
      ELSE Reply(error, IF error = "nil" THEN result ELSE "nil")

\* doc/pages/spec.md: "If an error occurred, this field should be `nil`"; and
\* include/rpc/detail/response.h: "If there is both an error and result in the
\* response, the result will be discarded while packing the data".  The whole reply
\* is the documented one.
ReplyAsDocumented == last.handled /\ fatal = "no" => last.sent = Documented(last)

\* How the handler of the message l ends: by an exception that is not suppressed,
\* or by an error object that meets a response without an error (of a notification,
\* or of a function that returns after respond_error()).
Fate(l) ==
  LET b == l.beh
      ran == l.bound /\ l.req.args = "ok"
      thrown == \/ l.req.args = "type"
                \/ l.req.args = "arity" /\ l.req.kind = "notification"
                \/ ran /\ b.end \in {"std", "other"}
      unmatched == b.end = "caught" \/ (b.end = "error_custom" /\ l.req.kind = "notification")
  IN  IF l.req.kind = "other" THEN "no"
      ELSE IF l.req.args = "malformed" \/ (l.bound /\ thrown /\ ~suppress) THEN "exception"
      ELSE IF ran /\ ~b.disable /\ unmatched THEN "null_response" ELSE "no"

\* The documented reply, but that an object given to respond() goes out beside an
\* error the function did not set itself, and that a nil object counts as none.
Answer(l) ==
  LET b == l.beh
      ran == l.bound /\ l.req.args = "ok"
      doc == Documented(l)
  IN  IF ~doc.reply \/ ~ran THEN doc
      ELSE Reply(IF b.end = "error_nil" THEN "not_found" ELSE doc.error,
                 CASE b.respond = "special" /\ b.end # "error_custom" -> "special"
                   [] b.respond = "nil" /\ b.end = "return" /\ l.returns -> "value"
                   [] OTHER -> doc.result)

\* What a message causes is decided by the message and its own function: nothing is
\* left over in the thread-local objects from another message on the same thread,
\* a disabled response wins over an error, an error over a special response, and
\* that over the value returned (the comments in do_read()).  The whole outcome is
\* compared, the reply with both its fields and the way the handler ends.
OutcomeIsOwn ==
  last.handled =>
    /\ fatal = Fate(last)
    /\ last.sent = IF fatal = "no" THEN Answer(last) ELSE Nothing

\* With suppress_exceptions(true), no exception of a function, no wrong number
\* of arguments and no argument of a wrong type leaves the handler and ends the
\* worker thread; only a message that is not one of the protocol does.
SuppressedNeverThrows ==
  suppress /\ fatal = "exception" => last.req.args = "malformed"

\* A session is closed and the server stopped for a function that asked for it,
\* never for a message handled earlier on the same thread.
ExitOnlyWhenAsked ==
  last.handled => (last.close => last.beh.exit) /\ (last.stop => last.beh.stop)

\* lib/rpc/dispatcher.cc, dispatch_notification(): for respond_error() in a
\* notification "doing nothing, the exception was only thrown to return
\* immediately".
NotificationErrorIgnored ==
  last.handled /\ last.req.kind = "notification" => fatal # "null_response"
=============================================================================
