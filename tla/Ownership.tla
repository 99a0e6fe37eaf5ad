----------------------------- MODULE Ownership -----------------------------
(***************************************************************************)
(* Who drops a value.  One function is compiled statement by statement:    *)
(* sema decides by name which variables are moved (analyze_ops.rs,         *)
(* context.rs, scope.rs), the CFG builder tracks which slots it has to     *)
(* drop at each exit (gruel-cfg/build.rs), and both leave a flat list of   *)
(* instructions.  The function is then run, every branch both ways.        *)
(*                                                                         *)
(* A statement that sema rejects is not enabled, so the programs built are *)
(* those the compiler accepts.  All values have one type, which is not     *)
(* Copy and has a destructor.  The two passes are shown side by side; sema *)
(* is done before lowering starts, but hands it nothing that a later       *)
(* statement can change.                                                   *)
(***************************************************************************)
EXTENDS Naturals, Sequences, FiniteSets, SequencesExt

CONSTANTS
    Names,        \* variable names
    Param,        \* the by-value parameter, or Nil
    Nil,          \* no variable, no slot
    MaxSlots,     \* bound on let bindings
    MaxEvents,    \* bound on statements
    Features      \* the program shapes allowed beyond the plain ones

ASSUME OwnershipAssumption ==
    /\ Param \in Names \cup {Nil} /\ Nil \notin Names
    /\ MaxSlots \in Nat /\ MaxEvents \in Nat
    /\ Features \subseteq {"reinit", "condMove", "condInit", "loopMove", "loopInit",
                           "loopLast", "shadowMove", "shadowTwice", "shadowParam",
                           "assignMove", "branchValue", "earlyInit", "deadCode"}

VARIABLES
    locals,        \* AnalysisContext::locals: the slot a name resolves to
    scopes,        \* AnalysisContext::scope_stack: names with what they shadow
    moved,         \* AnalysisContext::moved_vars
    lex,           \* the bindings in scope by the language's rules, oldest first
    scope_stack,   \* CfgBuilder::scope_stack
    origin,        \* CfgBuilder::slot_origin_depth
    live_params,   \* CfgBuilder::live_params
    loop_stack,    \* CfgBuilder::loop_stack
    open,          \* the constructs whose body is being compiled
    dead,          \* "no", or lowering has diverged: "last", "mid"
    never,         \* whether the last item of the block has type !
    code,          \* the instructions emitted
    slots,         \* next_slot
    events,
    phase,         \* "build", "run" or "done"
    pc,            \* the next instruction to execute
    held           \* what each slot holds at run time

sema == <<locals, scopes, moved, lex>>
tracking == <<scope_stack, origin, live_params>>
running == <<phase, pc, held>>
vars == <<locals, scopes, moved, lex, scope_stack, origin, live_params, loop_stack,
          open, dead, never, code, slots, events, phase, pc, held>>

Slots == 0 .. MaxSlots      \* slot 0 is the parameter

Init ==
    /\ locals = [n \in Names |-> Nil]
    /\ scopes = <<<<>>>>
    /\ moved = {}
    /\ lex = IF Param = Nil THEN <<>> ELSE <<<<Param, 0>>>>
    /\ scope_stack = <<<<>>, <<>>>>
    /\ origin = [s \in Slots |-> 0]
    /\ live_params = IF Param = Nil THEN {} ELSE {0}
    /\ loop_stack = <<>>
    /\ open = <<>>
    /\ dead = "no" /\ never = FALSE
    /\ code = <<>>
    /\ slots = 0 /\ events = 0
    /\ phase = "build" /\ pc = 0
    /\ held = [s \in Slots |-> "uninit"]

-----------------------------------------------------------------------------
(* Names                                                                   *)

\* analyze_var_ref asks the parameters before the locals.
Lookup(n) == IF n = Param THEN 0 ELSE locals[n]

\* What the name means: the youngest binding in scope.
Bindings(n) == {i \in DOMAIN lex : lex[i][1] = n}
Meaning(n) == IF Bindings(n) = {} THEN Nil ELSE lex[Max(Bindings(n))][2]

\* Mutant: a name declared in the scope is forgotten, not restored.
PopLocalsRemove(l, entries) ==
    [n \in Names |-> IF \E i \in DOMAIN entries : entries[i][1] = n THEN Nil ELSE l[n]]

\* pop_scope restores its entries oldest first: the last one of a name wins.
PopLocals(l, entries) ==
    [n \in Names |->
        LET own == {i \in DOMAIN entries : entries[i][1] = n}
        IN IF own = {} THEN l[n] ELSE entries[Max(own)][2]]

\* insert_local.
DeclareIn(l, sc, n, s) ==
    /\ locals' = [l EXCEPT ![n] = s]
    /\ scopes' = [sc EXCEPT ![Len(sc)] = Append(@, <<n, l[n]>>)]

-----------------------------------------------------------------------------
(* Program shapes                                                          *)

\* Slot s was declared inside every open construct of these kinds.
Inside(s, kinds) == \A i \in DOMAIN open : open[i].kind \in kinds => s > open[i].first

CanMove(n) ==
    /\ Lookup(n) # Nil /\ n \notin moved
    /\ "condMove" \in Features \/ Inside(Lookup(n), {"then", "else"})
    /\ "loopMove" \in Features \/ Inside(Lookup(n), {"while", "loop"})
    /\ "shadowMove" \in Features \/ Cardinality(Bindings(n)) = 1

\* A let clears the move of its name, whichever of the k bindings was moved.
CanShadow(n, k) ==
    "shadowMove" \in Features \/ n \notin moved \/ Bindings(n) \cap 1 .. k = {}

CanLet(n) ==
    /\ slots < MaxSlots
    /\ CanShadow(n, Len(lex))
    /\ "shadowTwice" \in Features \/ \A i \in DOMAIN Last(scopes) : Last(scopes)[i][1] # n
    /\ "shadowParam" \in Features \/ n # Param

CanReinit(s) ==
    /\ "reinit" \in Features
    /\ "condInit" \in Features \/ Inside(s, {"then", "else"})
    /\ "loopInit" \in Features \/ Inside(s, {"while", "loop"})

\* A jump that leaves the constructs above i leaves no initializer.
CanLeave(i) ==
    "earlyInit" \in Features \/ \A j \in i + 1 .. Len(open) : open[j].kind # "let"

-----------------------------------------------------------------------------
(* Drop elaboration                                                        *)


\* The slots of a scope, last declared first.
ScopeDrops(scope) == [i \in 1 .. Len(scope) |-> <<"drop", scope[Len(scope) + 1 - i]>>]

\* The scopes above depth d, innermost first.
DropsAbove(st, d) ==
    FlattenSeq([i \in 1 .. Len(st) - d |-> ScopeDrops(st[Len(st) + 1 - i])])

\* Mutant: the outermost scope of the loop body is skipped too.
LoopExitDropsOneLess(d) == DropsAbove(scope_stack, Min({d + 1, Len(scope_stack)}))

\* emit_drops_for_loop_exit.
LoopExitDrops(d) == DropsAbove(scope_stack, d)

\* forget_local_slot: in every scope, on every path.
Forgotten(st, s) == [i \in DOMAIN st |-> SelectSeq(st[i], LAMBDA t : t # s)]


\* forget_consumed_value.
ForgetConsumed(s) ==
    /\ scope_stack' = Forgotten(scope_stack, s)
    /\ live_params' = live_params \ {s}

\* StorageLive.
Live(st, s) == [st EXCEPT ![Len(st)] = Append(@, s)]

\* Mutant: the slot is attached to the scope of the assignment.
ReAddedHere(s) ==
    IF \E i \in DOMAIN scope_stack : s \in ToSet(scope_stack[i])
    THEN scope_stack
    ELSE Live(scope_stack, s)

\* re_add_local_slot.
ReAdded(s) ==
    IF \E i \in DOMAIN scope_stack : s \in ToSet(scope_stack[i])
    THEN scope_stack
    ELSE [scope_stack EXCEPT ![Min({origin[s], Len(scope_stack)})] = Append(@, s)]

-----------------------------------------------------------------------------
(* Statements                                                              *)

Statement ==
    /\ phase = "build" /\ dead = "no"
    /\ events < MaxEvents /\ events' = events + 1
    /\ never' = FALSE
    /\ UNCHANGED running

\* let n = S {};
Let(n) ==
    /\ Statement /\ CanLet(n)
    /\ slots' = slots + 1
    /\ DeclareIn(locals, scopes, n, slots')
    /\ lex' = Append(lex, <<n, slots'>>)
    /\ moved' = moved \ {n}
    /\ scope_stack' = Live(scope_stack, slots')
    /\ origin' = [origin EXCEPT ![slots'] = Len(scope_stack)]
    /\ code' = Append(code, <<"init", slots'>>)
    /\ UNCHANGED <<live_params, loop_stack, open, dead>>

\* let n = m;
LetMove(n, m) ==
    /\ Statement /\ CanLet(n) /\ CanMove(m)
    /\ n = m => "shadowMove" \in Features
    /\ slots' = slots + 1
    /\ DeclareIn(locals, scopes, n, slots')
    /\ lex' = Append(lex, <<n, slots'>>)
    /\ moved' = (moved \cup {m}) \ {n}
    /\ scope_stack' = Forgotten(Live(scope_stack, slots'), Lookup(m))
    /\ live_params' = live_params \ {Lookup(m)}
    /\ origin' = [origin EXCEPT ![slots'] = Len(scope_stack)]
    /\ code' = code \o <<<<"use", Lookup(m)>>, <<"init", slots'>>>>
    /\ UNCHANGED <<loop_stack, open, dead>>

\* let n = if c { m } else { S {} };  The branches are bare values, which
\* nothing forgets.
LetBranch(n, m) ==
    /\ "branchValue" \in Features
    /\ Statement /\ CanLet(n) /\ CanMove(m) /\ n # m
    /\ slots' = slots + 1
    /\ DeclareIn(locals, scopes, n, slots')
    /\ lex' = Append(lex, <<n, slots'>>)
    /\ moved' = (moved \cup {m}) \ {n}
    /\ scope_stack' = Live(scope_stack, slots')
    /\ origin' = [origin EXCEPT ![slots'] = Len(scope_stack)]
    /\ code' = code \o <<<<"branch", <<"else", events'>>>>, <<"use", Lookup(m)>>,
                         <<"label", <<"else", events'>>>>, <<"init", slots'>>>>
    /\ UNCHANGED <<live_params, loop_stack, open, dead>>


\* consume(n);
Consume(n) ==
    /\ Statement /\ CanMove(n)
    /\ moved' = moved \cup {n}
    /\ ForgetConsumed(Lookup(n))
    /\ code' = Append(code, <<"use", Lookup(n)>>)
    /\ UNCHANGED <<locals, scopes, lex, origin, loop_stack, open, dead, slots>>

\* n = v;  v is a fresh value (Nil) or a variable.  A parameter cannot be
\* assigned.  The old value is dropped when sema thinks there is one; the value
\* operand is not forgotten.
Assign(n, v) ==
    /\ Statement
    /\ n # Param /\ Lookup(n) # Nil
    /\ v # Nil => "assignMove" \in Features /\ CanMove(v)
    /\ LET s == Lookup(n)
           had_live_value == n \notin moved \cup {v}
       IN /\ had_live_value \/ n = v \/ CanReinit(s)
          /\ moved' = (moved \cup ({v} \ {Nil})) \ {n}
          /\ scope_stack' = IF had_live_value THEN scope_stack ELSE ReAdded(s)
          /\ code' = code \o (IF v = Nil THEN <<>> ELSE <<<<"use", Lookup(v)>>>>)
                          \o (IF had_live_value THEN <<<<"drop", s>>>> ELSE <<>>)
                          \o <<<<"set", s>>>>
    /\ UNCHANGED <<locals, scopes, lex, origin, live_params, loop_stack, open, dead, slots>>

-----------------------------------------------------------------------------
(* Jumps                                                                   *)

Diverge == dead' = "last" /\ never' = TRUE

Jump ==
    /\ phase = "build" /\ dead = "no"
    /\ events < MaxEvents /\ events' = events + 1
    /\ Diverge
    /\ UNCHANGED running

InnermostLoop == Max({i \in DOMAIN open : open[i].kind \in {"while", "loop"}})

LeaveLoop(target) ==
    /\ Jump
    /\ loop_stack # <<>> /\ CanLeave(InnermostLoop)
    /\ code' = code \o LoopExitDrops(Last(loop_stack).depth)
                    \o <<<<"goto", <<target, Last(loop_stack).id>>>>>>
    /\ UNCHANGED <<sema, tracking, loop_stack, open, slots>>

Break == LeaveLoop("exit")
Continue == LeaveLoop("head")

\* return v;  v is a fresh value (Nil) or a variable.
Return(v) ==
    /\ Jump /\ CanLeave(0)
    /\ v # Nil => CanMove(v)
    /\ LET s == IF v = Nil THEN Nil ELSE Lookup(v)
           st == Forgotten(scope_stack, s)
       IN /\ scope_stack' = st
          /\ live_params' = live_params \ {s}
          /\ code' = code \o (IF v = Nil THEN <<>> ELSE <<<<"use", s>>>>)
                          \o DropsAbove(st, 0)
                          \o (IF live_params \ {s} = {} THEN <<>> ELSE <<<<"drop", 0>>>>)
                          \o <<<<"ret", Nil>>>>
    /\ moved' = moved \cup ({v} \ {Nil})
    /\ UNCHANGED <<locals, scopes, lex, origin, loop_stack, open, slots>>

\* The block goes on after a statement that diverged.  Sema looks at the rest,
\* lowering does not.
DeadCode ==
    /\ phase = "build" /\ dead = "last" /\ "deadCode" \in Features
    /\ dead' = "mid" /\ never' = FALSE
    /\ UNCHANGED <<sema, tracking, loop_stack, open, code, slots, events, running>>

-----------------------------------------------------------------------------
(* Blocks, initializers, branches and loops                                *)

\* A body is a block of its own: both passes push a scope for it.
Open(kind, n, st) ==
    /\ Statement
    /\ open' = Append(open, [kind |-> kind, name |-> n, id |-> events', first |-> slots,
                             base |-> Len(lex), saved |-> moved, after |-> {},
                             never |-> FALSE, diverged |-> FALSE])
    /\ scopes' = Append(scopes, <<>>)
    /\ scope_stack' = Append(st, <<>>)
    /\ UNCHANGED <<locals, moved, lex, live_params, dead>>

BeginBlock ==
    /\ Open("block", Nil, scope_stack)
    /\ UNCHANGED <<origin, loop_stack, code, slots>>

\* let n = { ... S {} };  Lowering makes the slot live first, before there is a
\* value in it.  Sema takes the slot's number at the end; here it is taken now.
BeginLet(n) ==
    /\ Statement /\ CanLet(n)
    /\ slots' = slots + 1
    /\ origin' = [origin EXCEPT ![slots'] = Len(scope_stack)]
    /\ Open("let", n, Live(scope_stack, slots'))
    /\ UNCHANGED <<loop_stack, code>>

BeginIf ==
    /\ Open("then", Nil, scope_stack)
    /\ code' = Append(code, <<"branch", <<"else", events'>>>>)
    /\ UNCHANGED <<origin, loop_stack, slots>>

BeginLoop(kind) ==
    /\ Open(kind, Nil, scope_stack)
    /\ loop_stack' = Append(loop_stack, [id |-> events', depth |-> Len(scope_stack)])
    /\ code' = code \o <<<<"label", <<"head", events'>>>>>>
                    \o (IF kind = "while" THEN <<<<"branch", <<"exit", events'>>>>>> ELSE <<>>)
    /\ UNCHANGED <<origin, slots>>

\* The end of a body.  A block whose last item is a loop has type !; one that
\* diverged in the middle is left without popping its scope.
Close(kind) ==
    /\ phase = "build" /\ open # <<>> /\ Last(open).kind = kind
    /\ events > Last(open).id        \* empty bodies are left out
    /\ never /\ dead = "no" => "loopLast" \in Features
    /\ locals' = PopLocals(locals, Last(scopes))
    /\ lex' = SubSeq(lex, 1, Last(open).base)
    /\ UNCHANGED <<origin, live_params, slots, running>>

Popped == IF dead = "mid" THEN scope_stack ELSE Front(scope_stack)
ExitDrops == IF dead = "no" THEN ScopeDrops(Last(scope_stack)) ELSE <<>>
GoOn(l) == IF dead = "no" THEN <<<<"goto", l>>>> ELSE <<>>
Label(l) == <<<<"label", l>>>>

Leave ==
    /\ scopes' = Front(scopes)
    /\ scope_stack' = Popped
    /\ open' = Front(open)
    /\ UNCHANGED events

EndBlock ==
    /\ Close("block") /\ Leave
    /\ dead' = IF dead = "no" THEN "no" ELSE "last"
    /\ code' = code \o ExitDrops
    /\ UNCHANGED <<moved, loop_stack, never>>

\* The initializer has a value; the binding begins here.
EndLet ==
    /\ phase = "build" /\ dead = "no"
    /\ open # <<>> /\ Last(open).kind = "let" /\ events > Last(open).id
    /\ LET n == Last(open).name
           s == Last(open).first + 1
       IN /\ CanShadow(n, Last(open).base)
          /\ DeclareIn(PopLocals(locals, Last(scopes)), Front(scopes), n, s)
          /\ lex' = Append(SubSeq(lex, 1, Last(open).base), <<n, s>>)
          /\ moved' = moved \ {n}
          /\ code' = code \o ExitDrops \o <<<<"init", s>>>>
    /\ scope_stack' = Front(scope_stack)
    /\ open' = Front(open)
    /\ never' = FALSE
    /\ UNCHANGED <<origin, live_params, loop_stack, dead, slots, events, running>>

\* Mutant: moved after means moved in both branches.
MergeBoth(then, else, then_diverges, else_diverges) ==
    CASE then_diverges /\ ~else_diverges -> else
      [] else_diverges -> then
      [] OTHER -> then \cap else

\* merge_branch_moves.
Merge(then, else, then_diverges, else_diverges) ==
    CASE then_diverges /\ ~else_diverges -> else
      [] else_diverges -> then
      [] OTHER -> then \cup else

EndIf ==
    /\ Close("then") /\ Leave
    /\ LET f == Last(open)
       IN /\ moved' = IF never THEN f.saved ELSE Merge(moved, f.saved, FALSE, FALSE)
          /\ code' = code \o ExitDrops \o Label(<<"else", f.id>>)
    /\ dead' = "no" /\ never' = FALSE
    /\ UNCHANGED loop_stack

\* Between the branches sema goes back to the moves before the if; the builder
\* does not go back.
Else ==
    /\ Close("then")
    /\ events < MaxEvents /\ events' = events + 1
    /\ LET f == Last(open)
       IN /\ open' = [open EXCEPT ![Len(open)] =
                          [f EXCEPT !.kind = "else", !.after = moved,
                                    !.never = never, !.diverged = dead # "no"]]
          /\ moved' = f.saved
          /\ code' = code \o ExitDrops \o GoOn(<<"join", f.id>>) \o Label(<<"else", f.id>>)
    /\ scopes' = Append(Front(scopes), <<>>)
    /\ scope_stack' = Append(Popped, <<>>)
    /\ dead' = "no" /\ never' = FALSE
    /\ UNCHANGED loop_stack

EndElse ==
    /\ Close("else") /\ Leave
    /\ LET f == Last(open)
       IN /\ moved' = Merge(f.after, moved, f.never, never)
          /\ dead' = IF f.diverged /\ dead # "no" THEN "last" ELSE "no"
          /\ never' = (f.never /\ never)
          /\ code' = code \o ExitDrops
                          \o (IF dead' = "no" THEN Label(<<"join", f.id>>) ELSE <<>>)
    /\ UNCHANGED loop_stack

\* Mutant: the loop's context stays on the stack.
EndLoopKeep(kind) ==
    /\ Close(kind) /\ Leave
    /\ code' = code \o ExitDrops \o GoOn(<<"head", Last(open).id>>)
                    \o Label(<<"exit", Last(open).id>>)
    /\ dead' = "no"
    /\ never' = (kind = "loop")
    /\ UNCHANGED <<moved, loop_stack>>

\* After a loop lowering goes on, whether or not there is a break.
EndLoop(kind) ==
    /\ Close(kind) /\ Leave
    /\ loop_stack' = Front(loop_stack)
    /\ code' = code \o ExitDrops \o GoOn(<<"head", Last(open).id>>)
                    \o Label(<<"exit", Last(open).id>>)
    /\ dead' = "no"
    /\ never' = (kind = "loop")
    /\ UNCHANGED moved

-----------------------------------------------------------------------------
(* The end of the function, and running it                                 *)

\* The body's value is fresh (Nil) or a variable.  Sema and the builder are
\* gone after this.
Finish(v) ==
    /\ phase = "build" /\ open = <<>>
    /\ v # Nil => dead = "no" /\ CanMove(v)
    /\ LET s == IF v = Nil THEN Nil ELSE Lookup(v)
       IN code' = IF dead # "no" THEN code
                  ELSE code \o (IF v = Nil THEN <<>> ELSE <<<<"use", s>>>>)
                            \o DropsAbove(Forgotten(scope_stack, s), 0)
                            \o (IF live_params \ {s} = {} THEN <<>> ELSE <<<<"drop", 0>>>>)
                            \o <<<<"ret", Nil>>>>
    /\ phase' = "run" /\ pc' = 1
    /\ held' = [s \in Slots |-> IF s = 0 /\ Param # Nil THEN "full" ELSE "uninit"]
    /\ locals' = [n \in Names |-> Nil] /\ scopes' = <<>> /\ moved' = {} /\ lex' = <<>>
    /\ scope_stack' = <<>> /\ origin' = [s \in Slots |-> 0] /\ live_params' = {}
    /\ dead' = "no" /\ never' = FALSE /\ slots' = 0 /\ events' = 0
    /\ UNCHANGED <<loop_stack, open>>

At(op) == phase = "run" /\ code[pc][1] = op
Operand == code[pc][2]
Target(l) == CHOOSE i \in DOMAIN code : code[i] = <<"label", l>>

Unbuilt == UNCHANGED <<sema, tracking, loop_stack, open, dead, never, code, slots, events>>

Fill ==
    /\ At("init") \/ At("set")
    /\ held' = [held EXCEPT ![Operand] = "full"]
    /\ pc' = pc + 1
    /\ Unbuilt /\ UNCHANGED phase

Empty ==
    /\ At("use") \/ At("drop")
    /\ held' = [held EXCEPT ![Operand] = "empty"]
    /\ pc' = pc + 1
    /\ Unbuilt /\ UNCHANGED phase

Go ==
    /\ \/ At("goto") /\ pc' = Target(Operand)
       \/ At("branch") /\ pc' \in {pc + 1, Target(Operand)}
       \/ At("label") /\ pc' = pc + 1
    /\ Unbuilt /\ UNCHANGED <<phase, held>>

Ret ==
    /\ At("ret")
    /\ phase' = "done"
    /\ Unbuilt /\ UNCHANGED <<pc, held>>

-----------------------------------------------------------------------------
Build ==
    \/ \E n \in Names : Let(n) \/ Consume(n) \/ BeginLet(n)
    \/ \E n, m \in Names : LetMove(n, m) \/ LetBranch(n, m)
    \/ \E n \in Names, v \in Names \cup {Nil} : Assign(n, v)
    \/ \E v \in Names \cup {Nil} : Return(v) \/ Finish(v)
    \/ \E kind \in {"while", "loop"} : BeginLoop(kind) \/ EndLoop(kind)
    \/ Break \/ Continue \/ DeadCode
    \/ BeginBlock \/ EndBlock \/ EndLet \/ BeginIf \/ EndIf \/ Else \/ EndElse

Next == Build \/ Fill \/ Empty \/ Go \/ Ret

Spec == Init /\ [][Next]_vars

-----------------------------------------------------------------------------
(* Properties                                                              *)

\* Type correctness; every loop being compiled has its context on the stack,
\* and each break leaves scopes that are there.
TypeOK ==
    /\ locals \in [Names -> (1 .. MaxSlots) \cup {Nil}]
    /\ moved \subseteq Names
    /\ live_params \subseteq {0}
    /\ \A i \in DOMAIN scope_stack : ToSet(scope_stack[i]) \subseteq 1 .. slots
    /\ Len(loop_stack) = Cardinality({i \in DOMAIN open : open[i].kind \in {"while", "loop"}})
    /\ \A i \in DOMAIN loop_stack : loop_stack[i].depth < Len(scope_stack)
    /\ dead \in {"no", "last", "mid"} /\ never \in BOOLEAN
    /\ slots \in Slots /\ events \in 0 .. MaxEvents
    /\ phase \in {"build", "run", "done"}
    /\ held \in [Slots -> {"uninit", "full", "empty"}]

\* Whatever path is taken, what is dropped is there: no drop of a slot that was
\* never initialized, was moved out of, or was dropped before.
DropsOwned == At("drop") => held[Operand] = "full"

\* A variable that is moved holds a value: sema's moved_vars, kept by name, and
\* the path the program takes agree.
UsesOwned == At("use") => held[Operand] = "full"

\* Nothing is lost: no value is overwritten without being dropped, and none is
\* left when the function returns.
NothingLeaks ==
    /\ At("init") \/ At("set") => held[Operand] # "full"
    /\ At("ret") => \A s \in Slots : held[s] # "full"


\* After any number of scopes pushed and popped, a name resolves to the
\* youngest binding that is in scope.
LexicalScoping == phase = "build" => \A n \in Names : Lookup(n) = Meaning(n)
=============================================================================
