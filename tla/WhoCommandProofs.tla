-------------------------- MODULE WhoCommandProofs --------------------------
(***************************************************************************)
(* The safety properties of WhoCommand for any number of commands,         *)
(* sessions and results.  The argument: a slot in use holds the newest     *)
(* command, so whatever answer is still to come is to it or an older one;  *)
(* and a slot whose command has been posted to, with nobody posting, is    *)
(* left from a session that took all answers still to come with it.        *)
(***************************************************************************)
EXTENDS WhoCommand, SequenceTheorems, TLAPS

Answer == [to : Commands, results : 0..MaxResults]
Post == [under : Commands, answer : Commands]

SlotIsNewest == slot # NoCommand => slot = Len(commands)

\* Nothing refers to a command that has not been taken.
Outstanding ==
    /\ \A i \in 1..Len(todo) : todo[i] <= Len(commands)
    /\ \A i \in 1..Len(wire) : wire[i].to <= Len(commands)

\* The post under way.
Posting ==
    posting # NoCommand =>
        /\ reading \in Commands /\ left \in 1..3
        /\ reading <= posting /\ posting <= Len(commands)
        /\ \A k \in 1..Len(posted) :
               posted[k].under = posting => posted[k].answer = reading

PostedOrder ==
    \A k \in 1..Len(posted) :
        posted[k].under <= Len(commands) /\ posted[k].answer <= posted[k].under

PostedOnce ==
    \A j, k \in 1..Len(posted) :
        posted[j].under = posted[k].under => posted[j].answer = posted[k].answer

SlotUsedUp ==
    (/\ posting = NoCommand
     /\ \E k \in 1..Len(posted) : posted[k].under = slot)
        => todo = <<>> /\ wire = <<>>

IInv ==
    /\ TypeOK
    /\ SlotIsNewest /\ Outstanding /\ Posting
    /\ PostedOrder /\ PostedOnce /\ SlotUsedUp

-----------------------------------------------------------------------------
LEMMA InitIInv == Init => IInv
<1> SUFFICES ASSUME Init
             PROVE  IInv
  OBVIOUS
<1>1. /\ todo \in Seq(Commands) /\ wire \in Seq(Answer)
      /\ commands \in Seq([channel : Channels, query : Queries])
      /\ posted \in Seq(Post)
  BY EmptySeq DEF Init
<1>2. Len(commands) = 0 /\ Len(posted) = 0 /\ Len(todo) = 0 /\ Len(wire) = 0
  BY EmptySeq DEF Init
<1>3. session \in 0..MaxSessions /\ Len(commands) <= MaxCommands /\ left \in 0..3
  BY <1>2, WhoAssumption DEF Init
<1>4. TypeOK
  BY <1>1, <1>3 DEF Init, TypeOK, Answer, Post
<1>5. SlotIsNewest /\ Posting
  BY DEF Init, SlotIsNewest, Posting
<1>6. Outstanding /\ PostedOrder /\ PostedOnce /\ SlotUsedUp
  BY <1>2 DEF Init, Outstanding, PostedOrder, PostedOnce, SlotUsedUp
<1> QED
  BY <1>4, <1>5, <1>6 DEF IInv

\* What holds of the numbers in play in every step.
LEMMA Counts ==
    ASSUME IInv
    PROVE  /\ Len(commands) \in 0..MaxCommands
           /\ todo \in Seq(Commands) /\ wire \in Seq(Answer)
           /\ posted \in Seq(Post)
           /\ Len(todo) \in Nat /\ Len(wire) \in Nat /\ Len(posted) \in Nat
           /\ \A k \in 1..Len(posted) : /\ posted[k].under \in Commands
                                        /\ posted[k].answer \in Commands
<1>1. /\ commands \in Seq([channel : Channels, query : Queries])
      /\ Len(commands) <= MaxCommands
      /\ todo \in Seq(Commands) /\ wire \in Seq(Answer) /\ posted \in Seq(Post)
  BY DEF IInv, TypeOK, Answer, Post
<1>2. /\ Len(commands) \in Nat /\ Len(todo) \in Nat /\ Len(wire) \in Nat
      /\ Len(posted) \in Nat
  BY <1>1, LenProperties
<1>3. ASSUME NEW k \in 1..Len(posted)
      PROVE  posted[k].under \in Commands /\ posted[k].answer \in Commands
  <2>1. posted[k] \in Post
    BY <1>1, ElementOfSeq
  <2> QED
    BY <2>1 DEF Post
<1> QED
  BY <1>1, <1>2, <1>3, WhoAssumption

\* A new command takes the slot, and nothing outstanding is about it yet.
LEMMA TakeCommandPreserves ==
    ASSUME IInv, NEW c \in Channels, NEW q \in Queries, TakeCommand(c, q)
    PROVE  IInv'
<1> DEFINE new == Len(commands) + 1
<1>1. /\ Len(commands) \in 0..MaxCommands /\ Len(commands) < MaxCommands
      /\ todo \in Seq(Commands) /\ Len(todo) \in Nat
      /\ \A k \in 1..Len(posted) : /\ posted[k].under \in Commands
                                   /\ posted[k].answer \in Commands
  BY Counts DEF TakeCommand, request_who
<1>2. new \in Commands
  BY <1>1, WhoAssumption DEF Commands
<1>3. /\ slot' = new
      /\ commands' = Append(commands, [channel |-> c, query |-> q])
      /\ UNCHANGED <<link, wire, reader, posted>>
  BY DEF TakeCommand, request_who
<1>4. /\ commands' \in Seq([channel : Channels, query : Queries])
      /\ Len(commands') = new
  <2>1. [channel |-> c, query |-> q] \in [channel : Channels, query : Queries]
    OBVIOUS
  <2>2. commands \in Seq([channel : Channels, query : Queries])
    BY DEF IInv, TypeOK
  <2> QED
    BY <1>3, <2>1, <2>2, AppendProperties
<1>5. /\ todo' \in Seq(Commands)
      /\ \A i \in 1..Len(todo') : todo'[i] <= new
  <2>1. CASE todo' = Append(todo, new)
    <3>1. /\ todo' \in Seq(Commands) /\ Len(todo') = Len(todo) + 1
          /\ \A i \in 1..Len(todo) : todo'[i] = todo[i]
          /\ todo'[Len(todo) + 1] = new
      BY <1>1, <1>2, <2>1, AppendProperties
    <3>2. \A i \in 1..Len(todo) : todo[i] \in Commands /\ todo[i] <= Len(commands)
      BY <1>1, ElementOfSeq DEF IInv, Outstanding
    <3>3. ASSUME NEW i \in 1..Len(todo')
          PROVE  todo'[i] <= new
      <4>1. CASE i = Len(todo) + 1
        BY <1>1, <3>1, <4>1
      <4>2. CASE i \in 1..Len(todo)
        BY <1>1, <3>1, <3>2, <4>2 DEF Commands
      <4> QED
        BY <1>1, <3>1, <4>1, <4>2
    <3> QED
      BY <3>1, <3>3
  <2>2. CASE todo' = todo
    <3>1. \A i \in 1..Len(todo) : todo[i] \in Commands /\ todo[i] <= Len(commands)
      BY <1>1, ElementOfSeq DEF IInv, Outstanding
    <3> QED
      BY <1>1, <2>2, <3>1 DEF Commands
  <2> QED
    BY <2>1, <2>2 DEF TakeCommand, request_who
<1>6. TypeOK'
  <2>1. slot' \in Commands /\ Len(commands') <= MaxCommands
    BY <1>1, <1>2, <1>3, <1>4 DEF Commands
  <2>2. /\ UNCHANGED <<session, up, wire, posting, reading, left, posted>>
        /\ commands' \in Seq([channel : Channels, query : Queries])
        /\ todo' \in Seq(Commands)
    BY <1>3, <1>4, <1>5 DEF link, reader
  <2> QED
    BY <2>1, <2>2 DEF IInv, TypeOK
<1>7. SlotIsNewest'
  BY <1>3, <1>4 DEF SlotIsNewest
<1>8. Outstanding'
  <2>1. ASSUME NEW i \in 1..Len(wire)
        PROVE  wire[i].to <= new
    <3>1. wire[i] \in Answer /\ wire[i].to <= Len(commands)
      BY Counts, ElementOfSeq DEF IInv, Outstanding
    <3> QED
      BY <1>1, <3>1 DEF Answer, Commands
  <2> QED
    BY <1>3, <1>4, <1>5, <2>1 DEF Outstanding
<1>9. Posting'
  <2>1. posting # NoCommand => posting \in Commands
    BY DEF IInv, TypeOK
  <2> QED
    BY <1>1, <1>3, <1>4, <2>1 DEF reader, IInv, Posting, Commands
<1>10. PostedOrder'
  BY <1>1, <1>3, <1>4 DEF IInv, PostedOrder, Commands
<1>11. PostedOnce'
  BY <1>3 DEF IInv, PostedOnce
<1>12. SlotUsedUp'
  <2>1. \A k \in 1..Len(posted) : posted[k].under # new
    BY <1>1 DEF IInv, PostedOrder, Commands
  <2> QED
    BY <1>3, <2>1 DEF SlotUsedUp
<1> QED
  BY <1>6, <1>7, <1>8, <1>9, <1>10, <1>11, <1>12 DEF IInv

\* An answer addresses the newest command, if any, to which nothing has been
\* posted.
LEMMA ReadAnswerPreserves ==
    ASSUME IInv, ReadAnswer
    PROVE  IInv'
<1>1. /\ posting = NoCommand /\ wire # <<>> /\ wire' = Tail(wire)
      /\ UNCHANGED <<link, slot, todo, commands, posted>>
  BY DEF ReadAnswer
<1>2. /\ wire \in Seq(Answer) /\ Len(wire) \in Nat
      /\ Len(commands) \in 0..MaxCommands
  BY Counts
<1>3. /\ wire' \in Seq(Answer) /\ Head(wire) \in Answer /\ Head(wire) = wire[1]
      /\ Len(wire') = Len(wire) - 1 /\ Len(wire) \in Nat \ {0}
      /\ \A i \in 1..Len(wire') : wire'[i] = wire[i + 1]
  BY <1>1, <1>2, HeadTailProperties, EmptySeq
<1>4. ~ \E k \in 1..Len(posted) : posted[k].under = slot
  BY <1>1 DEF IInv, SlotUsedUp
<1>5. Head(wire).to \in Commands /\ Head(wire).to <= Len(commands)
  BY <1>2, <1>3 DEF IInv, Outstanding, Answer
<1>6. Outstanding'
  <2>1. \A i \in 1..Len(wire') : i + 1 \in 1..Len(wire)
    BY <1>2, <1>3
  <2> QED
    BY <1>1, <1>3, <2>1 DEF IInv, Outstanding
<1>7. SlotIsNewest' /\ PostedOrder' /\ PostedOnce' /\ SlotUsedUp'
  BY <1>1, <1>4 DEF IInv, SlotIsNewest, PostedOrder, PostedOnce, SlotUsedUp
<1>8. CASE Addressed
  <2>1. /\ slot \in Commands /\ slot = Len(commands) /\ slot # NoCommand
    BY <1>8 DEF Addressed, IInv, TypeOK, SlotIsNewest
  <2>2. posting' = slot /\ reading' = Head(wire).to
    BY <1>8 DEF ReadAnswer
  <2>3. left' \in 1..3
    <3>1. left' = IF Head(wire).results = 0 THEN 1
                  ELSE IF Head(wire).results > 3 THEN 3
                  ELSE Head(wire).results
      BY <1>8 DEF ReadAnswer
    <3>2. Head(wire).results \in 0..MaxResults
      BY <1>3 DEF Answer
    <3> QED
      BY <3>1, <3>2, WhoAssumption
  <2>4. TypeOK'
    <3>1. left' \in 0..3
      BY <2>3
    <3> QED
      BY <1>1, <1>3, <1>5, <2>1, <2>2, <3>1 DEF link, IInv, TypeOK, Answer
  <2>5. Posting'
    BY <1>1, <1>2, <1>4, <1>5, <2>1, <2>2, <2>3 DEF Posting, Commands
  <2> QED
    BY <1>6, <1>7, <2>4, <2>5 DEF IInv
<1>9. CASE ~Addressed
  <2>1. UNCHANGED reader
    BY <1>9 DEF ReadAnswer
  <2>2. TypeOK'
    BY <1>1, <1>3, <2>1 DEF link, reader, IInv, TypeOK, Answer
  <2>3. Posting'
    BY <1>1, <2>1 DEF reader, Posting
  <2> QED
    BY <1>6, <1>7, <2>2, <2>3 DEF IInv
<1> QED
  BY <1>8, <1>9

\* A send repeats the answer in hand; the last one frees the slot.
LEMMA PostResultPreserves ==
    ASSUME IInv, PostResult
    PROVE  IInv'
<1> DEFINE post == [under |-> posting, answer |-> reading]
<1>1. /\ posting # NoCommand /\ posted' = Append(posted, post) /\ left' = left - 1
      /\ UNCHANGED <<link, server, commands>>
  BY DEF PostResult
<1>2. /\ posting \in Commands /\ reading \in Commands /\ left \in 1..3
      /\ reading <= posting /\ posting <= Len(commands)
      /\ \A k \in 1..Len(posted) :
             posted[k].under = posting => posted[k].answer = reading
  BY <1>1 DEF IInv, TypeOK, Posting
<1>3. /\ posted \in Seq(Post) /\ Len(posted) \in Nat /\ post \in Post
      /\ \A k \in 1..Len(posted) : /\ posted[k].under \in Commands
                                   /\ posted[k].answer \in Commands
  BY <1>2, Counts DEF Post
<1>4. /\ posted' \in Seq(Post) /\ Len(posted') = Len(posted) + 1
      /\ \A k \in 1..Len(posted) : posted'[k] = posted[k]
      /\ posted'[Len(posted) + 1] = post
  BY <1>1, <1>3, AppendProperties
<1>5. \A k \in 1..Len(posted') :
          \/ k \in 1..Len(posted) /\ posted'[k] = posted[k]
          \/ posted'[k].under = posting /\ posted'[k].answer = reading
  <2>1. ASSUME NEW k \in 1..Len(posted')
        PROVE  k \in 1..Len(posted) \/ k = Len(posted) + 1
    BY <1>3, <1>4
  <2> QED
    BY <1>4, <2>1
<1>6. PostedOrder'
  BY <1>1, <1>2, <1>5 DEF IInv, PostedOrder
<1>7. PostedOnce'
  BY <1>2, <1>5 DEF IInv, PostedOnce
<1>8. Outstanding'
  BY <1>1 DEF server, IInv, Outstanding
<1>9. CASE left = 1
  <2>1. posting' = NoCommand /\ reading' = NoCommand /\ slot' = NoCommand
    BY <1>9 DEF PostResult
  <2>2. TypeOK'
    <3>1. left' \in 0..3
      BY <1>1, <1>9
    <3> QED
      BY <1>1, <1>4, <2>1, <3>1 DEF link, server, IInv, TypeOK, Post
  <2>3. SlotIsNewest' /\ Posting'
    BY <2>1 DEF SlotIsNewest, Posting
  <2>4. SlotUsedUp'
    <3>1. \A k \in 1..Len(posted') : posted'[k].under \in Commands
      BY <1>2, <1>3, <1>5
    <3>2. NoCommand \notin Commands
      BY WhoAssumption DEF Commands
    <3> QED
      BY <2>1, <3>1, <3>2 DEF SlotUsedUp
  <2> QED
    BY <1>6, <1>7, <1>8, <2>2, <2>3, <2>4 DEF IInv
<1>10. CASE left # 1
  <2>1. UNCHANGED <<posting, reading, slot>>
    BY <1>10 DEF PostResult
  <2>2. left' \in 1..3 /\ left' \in 0..3
    BY <1>1, <1>2, <1>10
  <2>3. TypeOK'
    BY <1>1, <1>4, <2>1, <2>2 DEF link, server, IInv, TypeOK, Post
  <2>4. SlotIsNewest' /\ SlotUsedUp'
    BY <1>1, <2>1 DEF IInv, SlotIsNewest, SlotUsedUp
  <2>5. Posting'
    BY <1>1, <1>2, <1>5, <2>1, <2>2 DEF Posting
  <2> QED
    BY <1>6, <1>7, <1>8, <2>3, <2>4, <2>5 DEF IInv
<1> QED
  BY <1>9, <1>10

LEMMA ServerAnswersPreserves ==
    ASSUME IInv, ServerAnswers
    PROVE  IInv'
<1>1. /\ todo # <<>> /\ todo' = Tail(todo)
      /\ UNCHANGED <<link, slot, reader, commands, posted>>
  BY DEF ServerAnswers
<1>2. PICK count \in 0..MaxResults :
          wire' = Append(wire, [to |-> Head(todo), results |-> count])
  BY DEF ServerAnswers
<1> DEFINE answer == [to |-> Head(todo), results |-> count]
<1>3. /\ todo \in Seq(Commands) /\ wire \in Seq(Answer)
      /\ Len(todo) \in Nat /\ Len(wire) \in Nat
  BY Counts
<1>4. /\ todo' \in Seq(Commands) /\ Head(todo) \in Commands /\ Head(todo) = todo[1]
      /\ Len(todo') = Len(todo) - 1 /\ Len(todo) \in Nat \ {0}
      /\ \A i \in 1..Len(todo') : todo'[i] = todo[i + 1]
  BY <1>1, <1>3, HeadTailProperties, EmptySeq
<1>5. answer \in Answer
  BY <1>4 DEF Answer
<1>6. /\ wire' \in Seq(Answer) /\ Len(wire') = Len(wire) + 1
      /\ \A i \in 1..Len(wire) : wire'[i] = wire[i]
      /\ wire'[Len(wire) + 1] = answer
  BY <1>2, <1>3, <1>5, AppendProperties
<1>7. TypeOK'
  BY <1>1, <1>4, <1>6 DEF link, reader, IInv, TypeOK, Answer
<1>8. Outstanding'
  <2>1. \A i \in 1..Len(todo') : i + 1 \in 1..Len(todo)
    BY <1>3, <1>4
  <2>2. \A i \in 1..Len(todo') : todo'[i] <= Len(commands)
    BY <1>4, <2>1 DEF IInv, Outstanding
  <2>3. answer.to <= Len(commands)
    BY <1>4 DEF IInv, Outstanding
  <2>4. ASSUME NEW i \in 1..Len(wire')
        PROVE  wire'[i].to <= Len(commands)
    <3>1. CASE i \in 1..Len(wire)
      BY <1>6, <3>1 DEF IInv, Outstanding
    <3>2. CASE i = Len(wire) + 1
      BY <1>6, <2>3, <3>2
    <3> QED
      BY <1>3, <1>6, <3>1, <3>2
  <2> QED
    BY <1>1, <2>2, <2>4 DEF Outstanding
<1>9. SlotIsNewest' /\ Posting' /\ PostedOrder' /\ PostedOnce'
  BY <1>1 DEF reader, IInv, SlotIsNewest, Posting, PostedOrder, PostedOnce
<1>10. SlotUsedUp'
  BY <1>1 DEF reader, IInv, SlotUsedUp
<1> QED
  BY <1>7, <1>8, <1>9, <1>10 DEF IInv

LEMMA IInvPreserved == IInv /\ [Next]_vars => IInv'
<1> SUFFICES ASSUME IInv, [Next]_vars
             PROVE  IInv'
  OBVIOUS
<1>1. CASE Connect
  <2>1. session' \in 0..MaxSessions /\ up' \in BOOLEAN
    BY <1>1, WhoAssumption DEF Connect, IInv, TypeOK
  <2>2. UNCHANGED <<slot, server, reader, commands, posted>>
    BY <1>1 DEF Connect
  <2> QED
    BY <2>1, <2>2 DEF server, reader, IInv, TypeOK, SlotIsNewest, Outstanding,
       Posting, PostedOrder, PostedOnce, SlotUsedUp
<1>2. CASE SessionEnds
  <2>1. /\ up' = FALSE /\ todo' = <<>> /\ wire' = <<>>
        /\ posting' = NoCommand /\ reading' = NoCommand /\ left' = 0
        /\ UNCHANGED <<session, slot, commands, posted>>
    BY <1>2 DEF SessionEnds
  <2>2. /\ todo' \in Seq(Commands) /\ wire' \in Seq(Answer)
        /\ Len(todo') = 0 /\ Len(wire') = 0
    BY <2>1, EmptySeq
  <2>3. TypeOK'
    <3>1. up' \in BOOLEAN
      BY <2>1
    <3>2. left' \in 0..3
      BY <2>1
    <3>3. /\ posting' \in Commands \union {NoCommand}
          /\ reading' \in Commands \union {NoCommand}
          /\ UNCHANGED <<session, slot, commands, posted>>
      BY <2>1
    <3>4. todo' \in Seq(Commands) /\ wire' \in Seq(Answer)
      BY <2>2
    <3> QED
      BY <3>1, <3>2, <3>3, <3>4 DEF IInv, TypeOK, Answer
  <2>4. Outstanding'
    BY <2>2 DEF Outstanding
  <2>5. SlotIsNewest' /\ Posting' /\ PostedOrder' /\ PostedOnce' /\ SlotUsedUp'
    BY <2>1 DEF IInv, SlotIsNewest, Posting, PostedOrder, PostedOnce, SlotUsedUp
  <2> QED
    BY <2>3, <2>4, <2>5 DEF IInv
<1>3. CASE UNCHANGED vars
  BY <1>3 DEF vars, link, server, reader, IInv, TypeOK, SlotIsNewest,
     Outstanding, Posting, PostedOrder, PostedOnce, SlotUsedUp
<1> QED
  BY <1>1, <1>2, <1>3, TakeCommandPreserves, ReadAnswerPreserves,
     PostResultPreserves, ServerAnswersPreserves DEF Next, Reader

-----------------------------------------------------------------------------
LEMMA InductiveInvariant == Spec => []IInv
<1>1. Init => IInv
  BY InitIInv
<1>2. IInv /\ [Next]_vars => IInv'
  BY IInvPreserved
<1> QED
  BY <1>1, <1>2, PTL DEF Spec

\* Every variable keeps its type.
THEOREM TypeCorrect == Spec => []TypeOK
<1>1. IInv => TypeOK
  BY DEF IInv
<1> QED
  BY <1>1, InductiveInvariant, PTL

\* Overlapping commands push an answer forward, never back
\* (bot.py:260-261, 371-375).
THEOREM AnswersGoForward == Spec => []NeverUnderOlder
<1>1. ASSUME IInv PROVE NeverUnderOlder
  <2>1. /\ \A k \in 1..Len(posted) : /\ posted[k].under \in Commands
                                      /\ posted[k].answer \in Commands
        /\ DOMAIN posted = 1..Len(posted)
    BY <1>1, Counts, LenProperties
  <2> QED
    BY <1>1, <2>1 DEF IInv, PostedOrder, NeverUnderOlder, Commands
<1> QED
  BY <1>1, InductiveInvariant, PTL

\* A command is shown the answer to one command at most, across sessions that
\* end in the middle of a post (bot.py:368-375, 415-416).
THEOREM CommandAnsweredOnce == Spec => []OneAnswerEach
<1>1. ASSUME IInv PROVE OneAnswerEach
  <2>1. DOMAIN posted = 1..Len(posted)
    BY <1>1, Counts, LenProperties
  <2> QED
    BY <1>1, <2>1 DEF IInv, PostedOnce, OneAnswerEach
<1> QED
  BY <1>1, InductiveInvariant, PTL
=============================================================================
