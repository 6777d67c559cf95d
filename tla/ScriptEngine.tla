---------------------------- MODULE ScriptEngine ----------------------------
(* The Lua engine: hot reload, the calls from C into Lua that nest in each    *)
(* other, the one budget they share, timers, and the MQTT subscription table  *)
(* scripts register in beside the core topics.  A call nests when a binding   *)
(* pumps something: MQTT.subscribe runs the MQTT client, and a publish over   *)
(* the modem runs the serial console.                                         *)
EXTENDS Integers, Sequences

CONSTANTS
  MaxSubs,     \* MQTT_MAX_SUBS
  MaxTimers,   \* MAX_TIMERS
  Budget,      \* LUA_SCRIPT_BUDGET_MS, in steps of a script
  CreditCap,   \* LUA_NATIVE_CREDIT_MS
  MaxGen,      \* bound: reloads
  MaxDepth     \* bound: nested calls (Lua's own C-call limit is 200)

Gens  == 0..MaxGen
NoLua == -1
Entry(topic, g) == [topic |-> topic, gen |-> g]
Core  == <<Entry("cli", NoLua), Entry("ota", NoLua), Entry("config", NoLua)>>
Kinds == {"main", "rules", "callback"}

VARIABLES
  gen,      \* _generation
  lua,      \* gL: the generation it was created in, or NoLua
  stack,    \* calls into Lua under way, the innermost last
  subs,     \* _subs: each entry's topic, and its generation when a script made it
  events,   \* generations of the EventBus callbacks
  timers,   \* _timers: the generation of each pending callback, or NoLua
  booting,  \* ScriptEngine::begin has not subscribed the reload topic yet
  pump,     \* what the innermost binding is pumping: "no", "mqtt" or "console"
  spent,    \* script time since the outermost call began
  credit,   \* native time given back to it
  hit,      \* its budget has run out
  online,   \* the MQTT session is up
  refused   \* generations that were refused a subscription beside a stale one

budgetVars == <<spent, credit, hit>>
tableVars  == <<subs, refused>>
vars == <<gen, lua, stack, tableVars, events, timers, booting, pump, budgetVars, online>>

Slots == 1..MaxTimers
Frame == [lua : Gens, from : Gens, kind : Kinds]

TypeOK ==
  /\ gen \in Gens /\ lua \in Gens \cup {NoLua}
  /\ stack \in Seq(Frame) /\ Len(stack) <= MaxDepth
  /\ subs \in Seq([topic : {"cli", "ota", "config", "reload", "lua"}, gen : Gens \cup {NoLua}])
  /\ Len(subs) <= MaxSubs
  /\ events \subseteq Gens /\ timers \in [Slots -> Gens \cup {NoLua}]
  /\ booting \in BOOLEAN /\ pump \in {"no", "mqtt", "console"}
  /\ spent \in 0..Budget /\ credit \in 0..CreditCap /\ hit \in BOOLEAN
  /\ online \in BOOLEAN /\ refused \subseteq Gens

Top == stack[Len(stack)]

-----------------------------------------------------------------------------
(* The subscription table.                                                    *)

Stale(s, g) == \E i \in DOMAIN s : s[i].topic = "lua" /\ s[i].gen # g

\* Mutant: off by one at the full table.
AddedPastEnd(s, e) == IF Len(s) > MaxSubs THEN s ELSE Append(s, e)

(* add: refused when the table is full.                                       *)
Added(s, e) == IF Len(s) >= MaxSubs THEN s ELSE Append(s, e)

\* Mutant: the slots are freed and their count is not.
ResetKeepsCount(s) == SubSeq(s \o Core, 1, IF Len(s) + 3 > MaxSubs THEN MaxSubs ELSE Len(s) + 3)

(* reinitSubscriptions: reset drops every registration, then the core topics. *)
ResetSubs(s) == Core

-----------------------------------------------------------------------------
(* luaBudgetEnter, the count hook and luaBudgetCredit.                        *)

\* Mutant: every call starts the clock.
EnterAlways == spent' = 0 /\ credit' = 0 /\ hit' = FALSE

Enter ==
  IF stack = <<>> THEN spent' = 0 /\ credit' = 0 /\ hit' = FALSE
                  ELSE UNCHANGED budgetVars

(* The script ran on for a while: raise once the budget is spent.             *)
Tick == spent' = spent + 1 /\ hit' = (spent + 1 >= Budget) /\ UNCHANGED credit

(* A binding blocked for one unit, and gave back what the cap allows.         *)
Blocked ==
  IF credit < CreditCap THEN credit' = credit + 1 /\ UNCHANGED <<spent, hit>>
                        ELSE Tick

(* luaBudgetedCall of a function that was registered in generation g.         *)
Call(g, kind) ==
  /\ Len(stack) < MaxDepth
  /\ stack' = Append(stack, [lua |-> lua, from |-> g, kind |-> kind]) /\ Enter

-----------------------------------------------------------------------------
(* createState, and the two files it is followed by.  destroyState closes the *)
(* old state also while a call runs in it; luaL_newstate may fail.            *)

\* Mutant: the pending timers outlive the state they belong to.
ClearTimersKept == timers

ClearTimers == [s \in Slots |-> NoLua]

ReloadNow ==
  /\ gen < MaxGen /\ Len(stack) < MaxDepth
  /\ gen' = gen + 1 /\ timers' = ClearTimers
  /\ \/ /\ lua' = gen + 1 /\ Enter
        /\ stack' = Append(stack, [lua |-> gen + 1, from |-> gen + 1, kind |-> "main"])
     \/ lua' = NoLua /\ UNCHANGED <<stack, budgetVars>>
  /\ UNCHANGED <<tableVars, events, booting>>

(* Init is the boot as far as executeFile("/scripts/main.lua").               *)
Init ==
  /\ gen = 0 /\ lua = 0 /\ booting = TRUE
  /\ stack = <<[lua |-> 0, from |-> 0, kind |-> "main"]>>
  /\ subs = Core /\ events = {} /\ timers = [s \in Slots |-> NoLua]
  /\ pump = "no" /\ spent = 0 /\ credit = 0 /\ hit = FALSE
  /\ online \in BOOLEAN /\ refused = {}

-----------------------------------------------------------------------------
(* The innermost call runs on.  Once its state is closed what it does is      *)
(* undefined; the outcome modelled is a panic, which boots the unit again.    *)

Runs == stack # <<>> /\ pump = "no" /\ Top.lua = lua /\ ~hit

Spin ==
  /\ Runs /\ Tick
  /\ UNCHANGED <<gen, lua, stack, tableVars, events, timers, booting, pump, online>>

(* MQTT.subscribe: an accepted topic is subscribed and the client pumped.     *)
MqttSubscribe ==
  /\ Runs /\ Tick
  /\ subs' = Added(subs, Entry("lua", gen))
  /\ refused' = IF subs' = subs /\ Stale(subs, gen) THEN refused \cup {gen} ELSE refused
  /\ pump' = IF subs' # subs /\ online THEN "mqtt" ELSE "no"
  /\ UNCHANGED <<gen, lua, stack, events, timers, booting, online>>

(* EventBus.subscribe.                                                        *)
EventSubscribe ==
  /\ Runs /\ Tick
  /\ events' = events \cup {gen}
  /\ UNCHANGED <<gen, lua, stack, tableVars, timers, booting, pump, online>>

(* Node.setTimeout: the first free slot.                                      *)
SetTimeout ==
  /\ Runs /\ Tick
  /\ \E s \in Slots :
       /\ timers[s] = NoLua /\ \A t \in 1..(s - 1) : timers[t] # NoLua
       /\ timers' = [timers EXCEPT ![s] = gen]
  /\ UNCHANGED <<gen, lua, stack, tableVars, events, booting, pump, online>>

(* MQTT.publish over the modem, whose waits run the console.                  *)
MqttPublish ==
  /\ Runs /\ Blocked /\ pump' = "console"
  /\ UNCHANGED <<gen, lua, stack, tableVars, events, timers, booting, online>>

PumpDone ==
  /\ pump # "no" /\ pump' = "no"
  /\ UNCHANGED <<gen, lua, stack, tableVars, events, timers, booting, budgetVars, online>>

(* The call returns or raises.  After main.lua comes rules.lua, then, at      *)
(* boot, the reload topic.                                                    *)
Return ==
  /\ stack # <<>> /\ pump = "no" /\ Top.lua = lua
  /\ IF Top.kind = "main"
       THEN /\ stack' = [stack EXCEPT ![Len(stack)].kind = "rules"]
            /\ IF Len(stack) = 1 THEN spent' = 0 /\ credit' = 0 /\ hit' = FALSE
                                 ELSE UNCHANGED budgetVars
            /\ UNCHANGED <<tableVars, booting>>
       ELSE /\ stack' = SubSeq(stack, 1, Len(stack) - 1)
            /\ UNCHANGED <<budgetVars, refused>>
            /\ LET first == Top.kind = "rules" /\ Len(stack) = 1 /\ booting IN
               /\ subs' = IF first THEN Added(subs, Entry("reload", NoLua)) ELSE subs
               /\ booting' = (booting /\ ~first)
  /\ UNCHANGED <<gen, lua, events, timers, pump, online>>

Panic ==
  /\ stack # <<>> /\ pump = "no" /\ Top.lua # lua
  /\ gen' = 0 /\ lua' = 0 /\ booting' = TRUE
  /\ stack' = <<[lua |-> 0, from |-> 0, kind |-> "main"]>>
  /\ subs' = Core /\ events' = {} /\ timers' = [s \in Slots |-> NoLua]
  /\ spent' = 0 /\ credit' = 0 /\ hit' = FALSE /\ refused' = {}
  /\ UNCHANGED <<pump, online>>

-----------------------------------------------------------------------------
(* What reaches the engine from the main loop, or from inside a pump.         *)

FromMqtt    == (stack = <<>> \/ pump = "mqtt") /\ pump' = "no" /\ online
FromConsole == (stack = <<>> \/ pump = "console") /\ pump' = "no"

\* Mutant: the callback does not compare generations.
LiveIgnoresGen(g) == lua # NoLua

(* A callback runs only in the generation that registered it.                 *)
Live(g) == lua # NoLua /\ g = gen

MessageArrives ==
  /\ FromMqtt
  /\ \E i \in DOMAIN subs : subs[i].topic = "lua" /\ Live(subs[i].gen)
                              /\ Call(subs[i].gen, "callback")
  /\ UNCHANGED <<gen, lua, tableVars, events, timers, booting, online>>

ReloadTopic == FromMqtt /\ (\E i \in DOMAIN subs : subs[i].topic = "reload") /\ ReloadNow
               /\ UNCHANGED online

LuaReload == FromConsole /\ ReloadNow /\ UNCHANGED online

LuaExec ==
  /\ FromConsole /\ lua # NoLua /\ Call(gen, "callback")
  /\ UNCHANGED <<gen, lua, tableVars, events, timers, booting, online>>

(* config.reload with a network change: the table starts over.                *)
ReinitSubscriptions ==
  /\ FromConsole /\ subs' = ResetSubs(subs) /\ online' = FALSE
  /\ UNCHANGED <<gen, lua, stack, refused, events, timers, booting, budgetVars>>

EventPublished ==
  /\ stack = <<>>
  /\ \E g \in events : Live(g) /\ Call(g, "callback")
  /\ UNCHANGED <<gen, lua, tableVars, events, timers, booting, pump, online>>

(* ScriptEngine::loop: a due timer's slot is freed, then its callback runs.   *)
FireTimer(s) ==
  /\ stack = <<>> /\ lua # NoLua /\ timers[s] # NoLua
  /\ timers' = [timers EXCEPT ![s] = NoLua] /\ Call(timers[s], "callback")
  /\ UNCHANGED <<gen, lua, tableVars, events, booting, pump, online>>

Session ==
  /\ online' = ~online
  /\ UNCHANGED <<gen, lua, stack, tableVars, events, timers, booting, pump, budgetVars>>

Run == Spin \/ MqttSubscribe \/ EventSubscribe \/ SetTimeout \/ MqttPublish \/ Return \/ Panic

Arrivals ==
  \/ MessageArrives \/ ReloadTopic \/ LuaReload \/ LuaExec \/ ReinitSubscriptions
  \/ EventPublished \/ \E s \in Slots : FireTimer(s)

Next == Run \/ PumpDone \/ Arrivals \/ Session

Spec == Init /\ [][Next]_vars

(* The interpreter runs on, and a pump handles what is there and returns.     *)
FairSpec == Spec /\ WF_vars(Run) /\ WF_vars(PumpDone)

-----------------------------------------------------------------------------
(* Properties.                                                                *)

(* What a call runs was registered in the state it runs in: no callback and   *)
(* no timer survives a reload, also one that comes from inside a call.        *)
OwnCallbacksOnly == stack # <<>> /\ Top.lua = lua => Top.from = lua

(* However scripts subscribe, fail and reload, each core topic stays in the   *)
(* table, once: a unit is never deaf to its command topics.                   *)
CoreRegistered ==
  \A t \in {"cli", "ota", "config"} : \E i \in DOMAIN subs :
    subs[i].topic = t /\ \A j \in DOMAIN subs : subs[j].topic = t => j = i

(* Every call from C into Lua ends, whatever the script does and whatever     *)
(* nests in it, and the main loop turns again; the one exception is a call    *)
(* whose state a reload closed from inside it.                                *)
MainLoopTurns == []<>(stack = <<>> \/ Top.lua # lua)

(* README.md: "Edit the rule, reload, done."  A reloaded script is refused a  *)
(* subscription only when live ones fill the table.                           *)
ReloadResubscribes == refused = {}
=============================================================================
