----------------------------- MODULE LuaControl -----------------------------
(***************************************************************************)
(* What protected calls, coroutines and to-be-closed variables promise to  *)
(* a program, without the C stack: an error goes to the innermost          *)
(* protected call of its thread, which closes every variable above it, the *)
(* last one first and each with the latest error, and returns that error;  *)
(* a yield keeps everything for the next resume; a coroutine that failed   *)
(* or was closed is dead.  LuaRuntime implements it.                       *)
(***************************************************************************)
EXTENDS SequencesExt

CONSTANTS Main, Coroutines, Variables, Errors

VARIABLES
  T,        \* the threads
  chain,    \* the active threads, each resumed or closed by the one before
  raising   \* is the last of them raising an error?

vars == <<T, chain, raising>>

Nil == <<0, 0>>
Overflow == <<-1, 0>>
BadYield == <<-2, 0>>
BadResume == <<-3, 0>>
BadClose == <<-4, 0>>
ErrErr == <<-5, 0>>

(* An active function: 'vars' are open, 'shut' are to be closed now.       *)
Function(kind, self, top) ==
  [kind |-> kind, op |-> IF kind = "lua" THEN "body" ELSE "call",
   self |-> self, top |-> top, vars |-> <<>>, shut |-> <<>>]

Lua == Function("lua", 0, Nil)

t == Last(chain)
me == T[t]
f == Last(me.stack)
Busy == chain # <<>> /\ raising = "no"
Active == Busy /\ me.stack # <<>>
InBody == Active /\ f.op = "body"

With(g) == [me EXCEPT !.stack = Append(Front(@), g)]
Waiting == With([f EXCEPT !.op = "call"])
Stay(r) == T' = [T EXCEPT ![t] = r] /\ chain' = chain

Above(r, g) == [r EXCEPT !.stack = Append(@, g)]
SetTop(r, v) ==
  IF r.stack = <<>> THEN [r EXCEPT !.top = v]
  ELSE [r EXCEPT !.stack = Append(Front(@), [Last(@) EXCEPT !.top = v])]

(* A C function calls g, unless calls are nested too deep.                 *)
Enter(r, g) ==
  \/ Stay(Above(r, g)) /\ raising' = "no"
  \/ Stay(SetTop(r, Overflow)) /\ raising' = "error"
  \/ Stay(r) /\ raising' = "fatal"

Raise(r, e) == Stay(SetTop(r, e)) /\ raising' = "error"

(* The last function of r ends and its caller gets v.                      *)
Delivered(r, v) ==
  LET rest == Front(r.stack)
  IN  [r EXCEPT !.stack = IF rest = <<>> THEN <<>>
         ELSE Append(Front(rest), [Last(rest) EXCEPT !.op = "body", !.top = v])]

Deliver(v) ==
  /\ T' = [T EXCEPT ![t] = LET r == Delivered(me, v) IN
             IF t = Main /\ r.stack = <<>> THEN [r EXCEPT !.mode = "dead"] ELSE r]
  /\ chain' = IF t = Main /\ Len(me.stack) = 1 THEN <<>> ELSE chain
  /\ raising' = "no"

Pending(g) == g.vars \o g.shut
PendingOf(stack) == FlattenSeq([i \in DOMAIN stack |-> Pending(stack[i])])
Used == UNION {ToSet(PendingOf(T[u].stack) \o T[u].rest) : u \in DOMAIN T}

(* May the running function yield?  Not through a C function, a message    *)
(* handler or coroutine.close.                                             *)
Yieldable ==
  /\ t # Main /\ me.mode # "closing"
  /\ \A i \in DOMAIN me.stack :
       /\ ~(me.stack[i].kind = "cfunction" /\ me.stack[i].op = "call")
       /\ me.stack[i].self # -1

-----------------------------------------------------------------------------
NewVariable(v) ==
  /\ InBody /\ v \notin Used
  /\ Stay(With([f EXCEPT !.vars = Append(@, v)]))
  /\ UNCHANGED raising

EndBlock(i) ==
  /\ InBody /\ i \in DOMAIN f.vars
  /\ Stay(With([f EXCEPT !.op = "block", !.vars = SubSeq(@, 1, i - 1),
                         !.shut = SubSeq(f.vars, i, Len(f.vars))]))
  /\ UNCHANGED raising

Return ==
  /\ InBody
  /\ Stay(With([f EXCEPT !.op = "return", !.vars = <<>>, !.shut = f.vars]))
  /\ UNCHANGED raising

Call == InBody /\ Stay(Above(Waiting, Lua)) /\ UNCHANGED raising

ProtectedCall(handler) ==
  /\ InBody
  /\ Enter(Above(Waiting, Function(IF handler THEN "xpcall" ELSE "pcall", 0, Nil)),
           Lua)

CallFromC(own) ==
  /\ InBody /\ ToSet(own) \cap Used = {}
  /\ Enter(Above(Waiting, [Function("cfunction", 0, Nil) EXCEPT !.vars = own]), Lua)

Error(e) == InBody /\ Raise(Waiting, e)

(* The resumer of a thread that stops.                                     *)
resumer == chain[Len(chain) - 1]

Yield ==
  /\ InBody
  /\ IF Yieldable
     THEN /\ T' = [T EXCEPT ![t] = [Waiting EXCEPT !.mode = "suspended"],
                            ![resumer] = Delivered(@, Nil)]
          /\ chain' = Front(chain) /\ UNCHANGED raising
     ELSE Raise(Waiting, BadYield)

Closing(r) == [r EXCEPT !.mode = "closing", !.stack = <<>>,
                        !.rest = @ \o PendingOf(r.stack)]

Resume(co, kind) ==
  LET caller == Above(Waiting, Function(kind, 0, Nil))
      refused(e) == IF kind = "resume" THEN Stay(Delivered(caller, e)) /\ UNCHANGED raising
                    ELSE Raise(caller, e)
  IN  /\ InBody
      /\ \/ /\ T[co].mode \in {"initial", "suspended"}
            /\ T' = [T EXCEPT ![t] = caller, ![co].mode = "active",
                       ![co].stack = IF T[co].mode = "initial" THEN <<Lua>> ELSE @]
            /\ chain' = Append(chain, co) /\ UNCHANGED raising
         \/ T[co].mode \in {"initial", "suspended"} /\ refused(Overflow)
         \/ /\ T[co].mode \notin {"initial", "suspended"}
            /\ ~(T[co].mode = "failed" /\ kind = "wrap")
            /\ refused(BadResume)
         \/ /\ T[co].mode = "failed" /\ kind = "wrap"
            /\ T' = [T EXCEPT ![t] = caller, ![co] = Closing(@)]
            /\ chain' = Append(chain, co) /\ UNCHANGED raising

CloseThread(co) ==
  LET caller == Above(Waiting, Function("close", 0, Nil))
  IN  /\ InBody
      /\ IF T[co].mode \in {"active", "closing"} THEN Raise(caller, BadClose)
         ELSE /\ T' = [T EXCEPT ![t] = caller, ![co] = Closing(@)]
              /\ chain' = Append(chain, co) /\ UNCHANGED raising

-----------------------------------------------------------------------------
(* Variables are closed, the last one first.                               *)
CloseVariable ==
  \/ /\ Active /\ f.shut # <<>>
     /\ Enter(With([f EXCEPT !.shut = Front(@)]),
              Function("lua", Last(f.shut), IF f.op = "unwind" THEN f.top ELSE Nil))
  \/ /\ Busy /\ me.stack = <<>> /\ me.rest # <<>>
     /\ Enter([me EXCEPT !.rest = Front(@)], Function("lua", Last(me.rest), me.top))

(* ... and then the block, the function or the protected call ends.        *)
AllClosed ==
  /\ Active /\ f.shut = <<>>
  /\ \/ /\ f.op = "block"
        /\ Stay(With([f EXCEPT !.op = "body", !.top = Nil])) /\ raising' = "no"
     \/ f.op = "unwind" /\ Deliver(f.top)
     \/ f.op = "return" /\ f.self = 0 /\ f.kind = "cfunction" /\ Deliver(Nil)
     \/ /\ f.op = "return" /\ f.kind = "lua"
        /\ LET below == Front(me.stack)
           IN  IF f.self = 0 /\ below # <<>> /\ Last(below).kind = "lua"
               THEN Deliver(Nil)
               ELSE /\ Stay([me EXCEPT !.stack = below])
                    /\ raising' = IF f.self = -1 THEN "handled" ELSE "no"

(* The function called by a C function returned.                           *)
ReturnC ==
  /\ Active /\ f.op = "call"
  /\ \/ f.kind \in {"pcall", "xpcall"} /\ Deliver(Nil)
     \/ f.kind = "cfunction" /\ f.vars = <<>> /\ Deliver(Nil)
     \/ /\ f.kind = "cfunction" /\ f.vars # <<>>
        /\ Stay(With([f EXCEPT !.op = "return", !.vars = <<>>, !.shut = f.vars]))
        /\ UNCHANGED raising

(* A yield returns.                                                        *)
Continue ==
  /\ Active /\ f.op = "call" /\ f.kind = "lua"
  /\ Stay(With([f EXCEPT !.op = "body", !.top = Nil])) /\ UNCHANGED raising

ThreadEnds ==
  /\ Busy /\ me.stack = <<>> /\ me.mode = "active"
  /\ T' = [T EXCEPT ![t].mode = "dead", ![resumer] = Delivered(@, Nil)]
  /\ chain' = Front(chain) /\ UNCHANGED raising

(* The caller of coroutine.close gets the error, that of a wrapped         *)
(* coroutine raises it.                                                    *)
ThreadClosed ==
  /\ Busy /\ me.stack = <<>> /\ me.rest = <<>> /\ me.mode = "closing"
  /\ LET closed == Last(T[resumer].stack).kind = "close"
     IN  /\ T' = [T EXCEPT ![t].mode = "dead", ![t].top = Nil,
                    ![resumer] = IF closed THEN Delivered(@, me.top)
                                           ELSE SetTop(@, me.top)]
         /\ raising' = IF closed THEN "no" ELSE "error"
  /\ chain' = Front(chain)

-----------------------------------------------------------------------------
catcher == SelectLastInSeq(me.stack, LAMBDA g : g.kind \in {"pcall", "xpcall"})
top == IF me.stack = <<>> THEN me.top ELSE f.top
HasHandler == catcher # 0 /\ me.stack[catcher].kind = "xpcall"

(* The message handler of the protected call runs first.                   *)
Handle ==
  /\ raising = "error" /\ HasHandler
  /\ Enter(me, Function("lua", -1, top))

Throw ==
  LET e == CASE raising = "fatal" -> ErrErr
             [] raising = "handled" -> <<top[1], top[2] + 1>>
             [] OTHER -> top
      c == catcher
      above == PendingOf(SubSeq(me.stack, c + 1, Len(me.stack)))
      caught == [me.stack[c] EXCEPT !.op = "unwind", !.top = e, !.shut = @ \o above]
      failed == [me EXCEPT !.stack = <<>>, !.rest = @ \o above, !.top = e]
  IN  /\ raising # "no" /\ ~(raising = "error" /\ HasHandler)
      /\ raising' = "no"
      /\ IF c # 0 THEN Stay([me EXCEPT !.stack = Append(SubSeq(@, 1, c - 1), caught)])
         ELSE IF me.mode = "closing" THEN Stay(failed)
         ELSE IF Last(T[resumer].stack).kind = "wrap"
         THEN Stay([failed EXCEPT !.mode = "closing"])
         ELSE /\ T' = [T EXCEPT ![t] = [failed EXCEPT !.mode = "failed"],
                                ![resumer] = Delivered(@, e)]
              /\ chain' = Front(chain)

-----------------------------------------------------------------------------
Init ==
  /\ T = [u \in {Main} \cup Coroutines |->
            [stack |-> IF u = Main THEN <<Function("pcall", 0, Nil), Lua>> ELSE <<>>,
             rest |-> <<>>, top |-> Nil,
             mode |-> IF u = Main THEN "active" ELSE "initial"]]
  /\ chain = <<Main>>
  /\ raising = "no"

Next ==
  \/ \E v \in Variables : NewVariable(v) \/ CallFromC(<<v>>)
  \/ Active /\ \E i \in DOMAIN f.vars : EndBlock(i)
  \/ Return \/ Call \/ CallFromC(<<>>) \/ Yield
  \/ \E b \in BOOLEAN : ProtectedCall(b)
  \/ \E e \in Errors : Error(e)
  \/ \E co \in Coroutines :
       Resume(co, "resume") \/ Resume(co, "wrap") \/ CloseThread(co)
  \/ CloseVariable \/ AllClosed \/ ReturnC \/ Continue
  \/ ThreadEnds \/ ThreadClosed
  \/ Handle \/ Throw

Spec == Init /\ [][Next]_vars
=============================================================================
