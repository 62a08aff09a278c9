--------------------------- MODULE EsParserProofs ---------------------------
(***************************************************************************)
(* Proofs about EsParser, for any number of ports and threads and rings of *)
(* any size.                                                               *)
(***************************************************************************)
EXTENDS EsParser, FiniteSetTheorems, ModularArithmetic, TLAPS

-----------------------------------------------------------------------------
(* Operators *)

\* What a ring may hold is a number, and the smaller of two numbers too.
LEMMA UsableType == ASSUME NEW p \in Ports PROVE Usable(p) \in Nat
<1>1. CanUse[p] \in Nat /\ Reserve(p) \in Nat
  BY EsParserAssumption DEF Reserve
<1>. QED
  BY <1>1 DEF Usable

\* The smaller of two numbers is a number, and no larger than either.
LEMMA LesserType ==
  ASSUME NEW a \in Nat, NEW b \in Nat
  PROVE  /\ Lesser(a, b) \in Nat /\ Lesser(a, b) <= a /\ Lesser(a, b) <= b
BY DEF Lesser

\* A blocking write's part of a ring, "level / 8", is a number.
LEMMA PartType ==
  ASSUME NEW p \in Ports
  PROVE  CanUse[p] \div Fraction \in Nat
<1>1. CanUse[p] \in Nat /\ Fraction \in Nat \ {0}
  BY EsParserAssumption
<1>. QED
  BY <1>1

\* A ring pointer that passes the end of its ring comes back by one ring.
LEMMA NextWpType ==
  ASSUME NEW p \in Ports, NEW n \in Nat, NEW j \in Nat,
         audio_real_wp[p] \in Nat
  PROVE  NextWp(p, n, j) \in Nat
<1>1. Size[p] \in Nat
  BY EsParserAssumption
<1>. QED
  BY <1>1 DEF NextWp, RingEnd

\* A thread writes to one of the ports.
LEMMA PortOfType == ASSUME NEW t \in Threads PROVE PortOf[t] \in Ports
BY EsParserAssumption

-----------------------------------------------------------------------------
(* Which ports the states of a call belong to *)

\* A thread enters the parser with the mutex, and leaves it as it gives it back.
LEMMA PlacesStep == TypeOK /\ Places /\ [Next]_vars => Places'
<1> SUFFICES ASSUME TypeOK, Places, [Next]_vars PROVE Places'
  OBVIOUS
<1>. USE DEF Places, InParser, CallsType, vars, calls, parser, life, rings
<1>1. /\ Places /\ CallsType /\ mutex \in Threads \cup {Nobody}
      /\ Nobody \notin Threads
  BY EsParserAssumption DEF TypeOK, ParserType
<1>2. ASSUME NEW p \in Ports, Open(p)
      PROVE  Places'
  BY <1>1, <1>2 DEF Open, ResetParser
<1>3. ASSUME NEW p \in Ports, OpenFail(p)
      PROVE  Places'
  BY <1>1, <1>3 DEF OpenFail, ResetParser
<1>4. ASSUME NEW p \in Ports, Close(p)
      PROVE  Places'
  BY <1>1, <1>4 DEF Close
<1>5. ASSUME NEW p \in Ports, Consume(p)
      PROVE  Places'
  BY <1>1, <1>5 DEF Consume
<1>6. ASSUME NEW t \in Threads, NEW n \in Counts, Begin(t, n)
      PROVE  Places'
  BY <1>1, <1>6 DEF Begin, Goto
<1>7. ASSUME NEW t \in Threads, CheckFits(t)
      PROVE  Places'
  BY <1>1, <1>7 DEF CheckFits, Goto
<1>8. ASSUME NEW t \in Threads, CheckShort(t)
      PROVE  Places'
  BY <1>1, <1>8 DEF CheckShort, Fits, Goto
<1>9. ASSUME NEW t \in Threads, TakeSpace(t)
      PROVE  Places'
  BY <1>1, <1>9 DEF TakeSpace, Goto
<1>10. ASSUME NEW t \in Threads, TooShort(t)
      PROVE  Places'
  BY <1>1, <1>10 DEF TooShort, GiveUp, Goto
<1>11. ASSUME NEW t \in Threads, TakePart(t)
      PROVE  Places'
  BY <1>1, <1>11 DEF TakePart, Goto
<1>12. ASSUME NEW t \in Threads, SpaceFound(t)
      PROVE  Places'
  BY <1>1, <1>12 DEF SpaceFound, Goto
<1>13. ASSUME NEW t \in Threads, SpaceTimeout(t)
      PROVE  Places'
  BY <1>1, <1>13 DEF SpaceTimeout, GiveUp, Goto
<1>14. ASSUME NEW t \in Threads, Lock(t)
      PROVE  Places'
  BY <1>1, <1>14 DEF Lock, Goto
<1>15. ASSUME NEW t \in Threads, AudioCopy(t)
      PROVE  Places'
  <2>1. PICK j \in 0..len[t] : ReturnLen(t, j)
    BY <1>15 DEF AudioCopy
  <2>. QED
    BY <1>1, <1>15, <2>1 DEF AudioCopy, ReturnLen, Goto
<1>16. ASSUME NEW t \in Threads, FetchFault(t)
      PROVE  Places'
  BY <1>1, <1>16 DEF FetchFault, ReturnErr, GiveUp, Goto
<1>17. ASSUME NEW t \in Threads, Program(t)
      PROVE  Places'
  <2>1. flen'[t] <= len[t] /\ len' = len
    BY <1>1, <1>17, EsParserAssumption, LesserType DEF Program
  <2>. QED
    BY <1>1, <1>17, <2>1 DEF Program, Goto
<1>18. ASSUME NEW t \in Threads, Start(t)
      PROVE  Places'
  BY <1>1, <1>18 DEF Start, Goto
<1>19. ASSUME NEW t \in Threads, Done(t)
      PROVE  Places'
  BY <1>1, <1>19 DEF Done, CountParsed, ReturnLen, Goto
<1>20. ASSUME NEW t \in Threads, Expire(t)
      PROVE  Places'
  BY <1>1, <1>20 DEF Expire, TimesOut, CountParsed, ReturnLen, ReturnErr,
     GiveUp, Goto
<1>21. ASSUME NEW t \in Threads, Interrupted(t)
      PROVE  Places'
  BY <1>1, <1>21 DEF Interrupted, ReturnErr, GiveUp, Goto
<1>22. ASSUME Move
      PROVE  Places'
  BY <1>1, <1>22 DEF Move
<1>23. ASSUME Found
      PROVE  Places'
  BY <1>1, <1>23 DEF Found
<1>24. ASSUME esparser_isr
      PROVE  Places'
  BY <1>1, <1>24 DEF esparser_isr
<1>25. ASSUME UNCHANGED vars
      PROVE  Places'
  BY <1>1, <1>25 DEF vars
<1>. QED
  BY <1>2, <1>3, <1>4, <1>5, <1>6, <1>7, <1>8, <1>9, <1>10, <1>11, <1>12,
     <1>13, <1>14, <1>15, <1>16, <1>17, <1>18, <1>19, <1>20, <1>21, <1>22,
     <1>23, <1>24, <1>25 DEF Next, ThreadStep

-----------------------------------------------------------------------------
(* Types, and the use count *)

\* Opening and closing keep the count of the open ports.
LEMMA UsesStep == TypeOK /\ Uses /\ [Next]_vars => Uses'
<1> SUFFICES ASSUME TypeOK, Uses, [Next]_vars PROVE Uses'
  OBVIOUS
<1>. USE DEF Uses, vars, calls, parser, life, rings
<1>1. Uses /\ CallsType
  BY DEF TypeOK
<1>2. ASSUME NEW p \in Ports, Open(p)
      PROVE  Uses'
  <2>1. IsFiniteSet(opened') /\ Cardinality(opened') = use_count + 1
    BY <1>1, <1>2, FS_AddElement DEF Open
  <2>. QED
    BY <1>1, <1>2, <2>1 DEF Open
<1>3. ASSUME NEW p \in Ports, OpenFail(p)
      PROVE  Uses'
  BY <1>1, <1>3 DEF OpenFail, ResetParser, CallsType
<1>4. ASSUME NEW p \in Ports, Close(p)
      PROVE  Uses'
  <2>1. /\ IsFiniteSet(opened') /\ Cardinality(opened') = use_count - 1
        /\ Cardinality(opened') \in Nat
    BY <1>1, <1>4, FS_RemoveElement, FS_CardinalityType DEF Close
  <2>2. opened' = {} <=> Cardinality(opened') = 0
    BY <2>1, FS_EmptySet
  <2>3. irq_on' <=> opened' # {}
    <3>1. use_count \in Nat /\ (irq_on' <=> use_count > 1)
      BY <1>1, FS_CardinalityType, <1>4 DEF Close
    <3>2. Cardinality(opened') = 0 <=> ~ (use_count > 1)
      <4>1. use_count - 1 \in Nat
        BY <2>1
      <4>. QED
        BY <2>1, <3>1, <4>1
    <3>. QED
      BY <2>2, <3>1, <3>2
  <2>4. \A t \in Threads : pc'[t] # "idle" => PortOf[t] \in opened'
    BY <1>1, <1>4 DEF Close
  <2>. QED
    BY <1>1, <1>4, <2>1, <2>3, <2>4 DEF Close
<1>5. ASSUME NEW p \in Ports, Consume(p)
      PROVE  Uses'
  BY <1>1, <1>5 DEF Consume, CallsType
<1>6. ASSUME NEW t \in Threads, NEW n \in Counts, Begin(t, n)
      PROVE  Uses'
  BY <1>1, <1>6 DEF Begin, Goto, CallsType
<1>7. ASSUME NEW t \in Threads, CheckFits(t)
      PROVE  Uses'
  BY <1>1, <1>7 DEF CheckFits, Goto, CallsType
<1>8. ASSUME NEW t \in Threads, CheckShort(t)
      PROVE  Uses'
  BY <1>1, <1>8 DEF CheckShort, Fits, Goto, CallsType
<1>9. ASSUME NEW t \in Threads, TakeSpace(t)
      PROVE  Uses'
  BY <1>1, <1>9 DEF TakeSpace, Goto, CallsType
<1>10. ASSUME NEW t \in Threads, TooShort(t)
      PROVE  Uses'
  BY <1>1, <1>10 DEF TooShort, GiveUp, Goto, CallsType
<1>11. ASSUME NEW t \in Threads, TakePart(t)
      PROVE  Uses'
  BY <1>1, <1>11 DEF TakePart, Goto, CallsType
<1>12. ASSUME NEW t \in Threads, SpaceFound(t)
      PROVE  Uses'
  BY <1>1, <1>12 DEF SpaceFound, Goto, CallsType
<1>13. ASSUME NEW t \in Threads, SpaceTimeout(t)
      PROVE  Uses'
  BY <1>1, <1>13 DEF SpaceTimeout, GiveUp, Goto, CallsType
<1>14. ASSUME NEW t \in Threads, Lock(t)
      PROVE  Uses'
  BY <1>1, <1>14 DEF Lock, Goto, CallsType
<1>15. ASSUME NEW t \in Threads, AudioCopy(t)
      PROVE  Uses'
  <2>1. PICK j \in 0..len[t] : ReturnLen(t, j)
    BY <1>15 DEF AudioCopy
  <2>. QED
    BY <1>1, <1>15, <2>1 DEF AudioCopy, ReturnLen, Goto, CallsType
<1>16. ASSUME NEW t \in Threads, FetchFault(t)
      PROVE  Uses'
  BY <1>1, <1>16 DEF FetchFault, ReturnErr, GiveUp, Goto, CallsType
<1>17. ASSUME NEW t \in Threads, Program(t)
      PROVE  Uses'
  BY <1>1, <1>17 DEF Program, Goto, CallsType
<1>18. ASSUME NEW t \in Threads, Start(t)
      PROVE  Uses'
  BY <1>1, <1>18 DEF Start, Goto, CallsType
<1>19. ASSUME NEW t \in Threads, Done(t)
      PROVE  Uses'
  BY <1>1, <1>19 DEF Done, CountParsed, ReturnLen, Goto, CallsType
<1>20. ASSUME NEW t \in Threads, Expire(t)
      PROVE  Uses'
  BY <1>1, <1>20 DEF Expire, TimesOut, CountParsed, ReturnLen, ReturnErr,
     GiveUp, Goto, CallsType
<1>21. ASSUME NEW t \in Threads, Interrupted(t)
      PROVE  Uses'
  BY <1>1, <1>21 DEF Interrupted, ReturnErr, GiveUp, Goto, CallsType
<1>22. ASSUME Move
      PROVE  Uses'
  BY <1>1, <1>22 DEF Move, CallsType
<1>23. ASSUME Found
      PROVE  Uses'
  BY <1>1, <1>23 DEF Found, CallsType
<1>24. ASSUME esparser_isr
      PROVE  Uses'
  BY <1>1, <1>24 DEF esparser_isr, CallsType
<1>25. ASSUME UNCHANGED vars
      PROVE  Uses'
  BY <1>1, <1>25 DEF vars, CallsType
<1>. QED
  BY <1>2, <1>3, <1>4, <1>5, <1>6, <1>7, <1>8, <1>9, <1>10, <1>11, <1>12,
     <1>13, <1>14, <1>15, <1>16, <1>17, <1>18, <1>19, <1>20, <1>21, <1>22,
     <1>23, <1>24, <1>25 DEF Next, ThreadStep

-----------------------------------------------------------------------------
(* Types *)

\* The parser's registers and the use count keep their types: the port that is
\* closed was counted.
LEMMA ParserTypeStep == TypeOK /\ Uses /\ [Next]_vars => ParserType'
<1> SUFFICES ASSUME TypeOK, Uses, [Next]_vars PROVE ParserType'
  OBVIOUS
<1>. USE DEF ParserType, vars, calls, parser, life, rings
<1>1. /\ ParserType /\ flen \in [Threads -> Nat]
      /\ PortOf \in [Threads -> Ports]
  BY EsParserAssumption DEF TypeOK, CallsType
<1>2. ASSUME NEW p \in Ports, Open(p)
      PROVE  ParserType'
  <2>1. /\ hw' \in {"idle", "fetch"} /\ hleft' \in Nat /\ irq' \in BOOLEAN
    BY <1>1, <1>2 DEF Open, ResetParser
  <2>2. opened' \subseteq Ports /\ use_count' \in Nat /\ irq_on' \in BOOLEAN
    BY <1>1, <1>2 DEF Open
  <2>. QED
    BY <1>1, <1>2, <2>1, <2>2 DEF Open
<1>3. ASSUME NEW p \in Ports, OpenFail(p)
      PROVE  ParserType'
  BY <1>1, <1>3 DEF OpenFail, ResetParser
<1>4. ASSUME NEW p \in Ports, Close(p)
      PROVE  ParserType'
  <2>1. use_count \in Nat \ {0}
    BY <1>4, FS_CardinalityType, FS_EmptySet DEF Close, Uses
  <2>. QED
    BY <1>1, <1>4, <2>1 DEF Close
<1>5. ASSUME NEW p \in Ports, Consume(p)
      PROVE  ParserType'
  BY <1>1, <1>5 DEF Consume
<1>6. ASSUME NEW t \in Threads, NEW n \in Counts, Begin(t, n)
      PROVE  ParserType'
  BY <1>1, <1>6 DEF Begin, Goto
<1>7. ASSUME NEW t \in Threads, CheckFits(t)
      PROVE  ParserType'
  BY <1>1, <1>7 DEF CheckFits, Goto
<1>8. ASSUME NEW t \in Threads, CheckShort(t)
      PROVE  ParserType'
  BY <1>1, <1>8 DEF CheckShort, Fits, Goto
<1>9. ASSUME NEW t \in Threads, TakeSpace(t)
      PROVE  ParserType'
  BY <1>1, <1>9 DEF TakeSpace, Goto
<1>10. ASSUME NEW t \in Threads, TooShort(t)
      PROVE  ParserType'
  BY <1>1, <1>10 DEF TooShort, GiveUp, Goto
<1>11. ASSUME NEW t \in Threads, TakePart(t)
      PROVE  ParserType'
  BY <1>1, <1>11 DEF TakePart, Goto
<1>12. ASSUME NEW t \in Threads, SpaceFound(t)
      PROVE  ParserType'
  BY <1>1, <1>12 DEF SpaceFound, Goto
<1>13. ASSUME NEW t \in Threads, SpaceTimeout(t)
      PROVE  ParserType'
  BY <1>1, <1>13 DEF SpaceTimeout, GiveUp, Goto
<1>14. ASSUME NEW t \in Threads, Lock(t)
      PROVE  ParserType'
  BY <1>1, <1>14 DEF Lock, Goto
<1>15. ASSUME NEW t \in Threads, AudioCopy(t)
      PROVE  ParserType'
  <2>1. UNCHANGED <<parser, life>> /\ \E j \in 0..len[t] : ReturnLen(t, j)
    BY <1>15 DEF AudioCopy
  <2>. QED
    BY <1>1, <2>1 DEF ReturnLen
<1>16. ASSUME NEW t \in Threads, FetchFault(t)
      PROVE  ParserType'
  BY <1>1, <1>16 DEF FetchFault, ReturnErr, GiveUp, Goto
<1>17. ASSUME NEW t \in Threads, Program(t)
      PROVE  ParserType'
  BY <1>1, <1>17 DEF Program, Goto
<1>18. ASSUME NEW t \in Threads, Start(t)
      PROVE  ParserType'
  BY <1>1, <1>18 DEF Start, Goto
<1>19. ASSUME NEW t \in Threads, Done(t)
      PROVE  ParserType'
  BY <1>1, <1>19 DEF Done, CountParsed, ReturnLen, Goto
<1>20. ASSUME NEW t \in Threads, Expire(t)
      PROVE  ParserType'
  BY <1>1, <1>20 DEF Expire, TimesOut, CountParsed, ReturnLen, ReturnErr,
     GiveUp, Goto
<1>21. ASSUME NEW t \in Threads, Interrupted(t)
      PROVE  ParserType'
  BY <1>1, <1>21 DEF Interrupted, ReturnErr, GiveUp, Goto
<1>22. ASSUME Move
      PROVE  ParserType'
  BY <1>1, <1>22 DEF Move
<1>23. ASSUME Found
      PROVE  ParserType'
  BY <1>1, <1>23 DEF Found
<1>24. ASSUME esparser_isr
      PROVE  ParserType'
  BY <1>1, <1>24 DEF esparser_isr
<1>25. ASSUME UNCHANGED vars
      PROVE  ParserType'
  BY <1>1, <1>25 DEF vars
<1>. QED
  BY <1>2, <1>3, <1>4, <1>5, <1>6, <1>7, <1>8, <1>9, <1>10, <1>11, <1>12,
     <1>13, <1>14, <1>15, <1>16, <1>17, <1>18, <1>19, <1>20, <1>21, <1>22,
     <1>23, <1>24, <1>25 DEF Next, ThreadStep

\* A decoder takes no more than there is, and the counts only grow.
LEMMA RingsTypeStep == TypeOK /\ Places /\ [Next]_vars => RingsType'
<1> SUFFICES ASSUME TypeOK, Places, [Next]_vars PROVE RingsType'
  OBVIOUS
<1>. USE DEF RingsType, vars, calls, parser, life, rings
<1>1. /\ RingsType /\ flen \in [Threads -> Nat] /\ hport \in Ports
      /\ hleft \in Nat /\ PortOf \in [Threads -> Ports]
  BY EsParserAssumption DEF TypeOK, ParserType, CallsType
<1>2. ASSUME NEW p \in Ports, Open(p)
      PROVE  RingsType'
  BY <1>1, <1>2 DEF Open, ResetParser
<1>3. ASSUME NEW p \in Ports, OpenFail(p)
      PROVE  RingsType'
  BY <1>1, <1>3 DEF OpenFail, ResetParser
<1>4. ASSUME NEW p \in Ports, Close(p)
      PROVE  RingsType'
  BY <1>1, <1>4 DEF Close
<1>5. ASSUME NEW p \in Ports, Consume(p)
      PROVE  RingsType'
  <2>1. PICK k \in 1..level[p] : level' = [level EXCEPT ![p] = @ - k]
    BY <1>5 DEF Consume
  <2>2. level[p] \in Nat /\ level[p] - k \in Nat
    BY <1>1, <2>1
  <2>. QED
    BY <1>1, <1>5, <2>1, <2>2 DEF Consume
<1>6. ASSUME NEW t \in Threads, NEW n \in Counts, Begin(t, n)
      PROVE  RingsType'
  BY <1>1, <1>6 DEF Begin, Goto
<1>7. ASSUME NEW t \in Threads, CheckFits(t)
      PROVE  RingsType'
  BY <1>1, <1>7 DEF CheckFits, Goto
<1>8. ASSUME NEW t \in Threads, CheckShort(t)
      PROVE  RingsType'
  BY <1>1, <1>8 DEF CheckShort, Fits, Goto
<1>9. ASSUME NEW t \in Threads, TakeSpace(t)
      PROVE  RingsType'
  BY <1>1, <1>9 DEF TakeSpace, Goto
<1>10. ASSUME NEW t \in Threads, TooShort(t)
      PROVE  RingsType'
  BY <1>1, <1>10 DEF TooShort, GiveUp, Goto
<1>11. ASSUME NEW t \in Threads, TakePart(t)
      PROVE  RingsType'
  BY <1>1, <1>11 DEF TakePart, Goto
<1>12. ASSUME NEW t \in Threads, SpaceFound(t)
      PROVE  RingsType'
  BY <1>1, <1>12 DEF SpaceFound, Goto
<1>13. ASSUME NEW t \in Threads, SpaceTimeout(t)
      PROVE  RingsType'
  BY <1>1, <1>13 DEF SpaceTimeout, GiveUp, Goto
<1>14. ASSUME NEW t \in Threads, Lock(t)
      PROVE  RingsType'
  BY <1>1, <1>14 DEF Lock, Goto
<1>15. ASSUME NEW t \in Threads, AudioCopy(t)
      PROVE  RingsType'
  <2>. DEFINE p == PortOf[t]
  <2>1. PICK j \in 0..len[t] :
           /\ audio_real_wp' = [audio_real_wp EXCEPT ![p] = NextWp(p, len[t], j)]
           /\ fetched' = [fetched EXCEPT ![p] = @ + j]
           /\ level' = [level EXCEPT ![p] = @ + j]
           /\ parsed' = [parsed EXCEPT ![p] = @ + j]
    BY <1>15 DEF AudioCopy
  <2>2. p \in Ports /\ len[t] \in Nat /\ j \in Nat
    BY <1>1, <2>1 DEF TypeOK, CallsType
  <2>3. NextWp(p, len[t], j) \in Nat
    BY <2>2, <1>1, NextWpType
  <2>. QED
    BY <1>1, <2>1, <2>2, <2>3
<1>16. ASSUME NEW t \in Threads, FetchFault(t)
      PROVE  RingsType'
  BY <1>1, <1>16 DEF FetchFault, ReturnErr, GiveUp, Goto
<1>17. ASSUME NEW t \in Threads, Program(t)
      PROVE  RingsType'
  BY <1>1, <1>17 DEF Program, Goto
<1>18. ASSUME NEW t \in Threads, Start(t)
      PROVE  RingsType'
  BY <1>1, <1>18 DEF Start, Goto
<1>19. ASSUME NEW t \in Threads, Done(t)
      PROVE  RingsType'
  BY <1>1, <1>19 DEF Done, CountParsed, ReturnLen, Goto
<1>20. ASSUME NEW t \in Threads, Expire(t)
      PROVE  RingsType'
  BY <1>1, <1>20 DEF Expire, TimesOut, CountParsed, ReturnLen, ReturnErr,
     GiveUp, Goto
<1>21. ASSUME NEW t \in Threads, Interrupted(t)
      PROVE  RingsType'
  BY <1>1, <1>21 DEF Interrupted, ReturnErr, GiveUp, Goto
<1>22. ASSUME Move
      PROVE  RingsType'
  BY <1>1, <1>22 DEF Move
<1>23. ASSUME Found
      PROVE  RingsType'
  BY <1>1, <1>23 DEF Found
<1>24. ASSUME esparser_isr
      PROVE  RingsType'
  BY <1>1, <1>24 DEF esparser_isr
<1>25. ASSUME UNCHANGED vars
      PROVE  RingsType'
  BY <1>1, <1>25 DEF vars
<1>. QED
  BY <1>2, <1>3, <1>4, <1>5, <1>6, <1>7, <1>8, <1>9, <1>10, <1>11, <1>12,
     <1>13, <1>14, <1>15, <1>16, <1>17, <1>18, <1>19, <1>20, <1>21, <1>22,
     <1>23, <1>24, <1>25 DEF Next, ThreadStep

\* What a call still has to write is never negative: the parser is asked for
\* no more than that.
LEMMA CallsTypeStep == TypeOK /\ Places /\ [Next]_vars => CallsType'
<1> SUFFICES ASSUME TypeOK, Places, [Next]_vars PROVE CallsType'
  OBVIOUS
<1>. USE DEF CallsType, vars, calls, parser, life, rings
<1>1. /\ CallsType /\ fetched \in [Ports -> Nat] /\ level \in [Ports -> Nat]
      /\ PortOf \in [Threads -> Ports] /\ Counts \subseteq Nat
      /\ FetchBuf \in Nat
  BY EsParserAssumption DEF TypeOK, RingsType
<1>2. ASSUME NEW p \in Ports, Open(p)
      PROVE  CallsType'
  BY <1>1, <1>2 DEF Open, ResetParser
<1>3. ASSUME NEW p \in Ports, OpenFail(p)
      PROVE  CallsType'
  BY <1>1, <1>3 DEF OpenFail, ResetParser
<1>4. ASSUME NEW p \in Ports, Close(p)
      PROVE  CallsType'
  BY <1>1, <1>4 DEF Close
<1>5. ASSUME NEW p \in Ports, Consume(p)
      PROVE  CallsType'
  BY <1>1, <1>5 DEF Consume
<1>6. ASSUME NEW t \in Threads, NEW n \in Counts, Begin(t, n)
      PROVE  CallsType'
  BY <1>1, <1>6 DEF Begin, Goto
<1>7. ASSUME NEW t \in Threads, CheckFits(t)
      PROVE  CallsType'
  BY <1>1, <1>7 DEF CheckFits, Goto
<1>8. ASSUME NEW t \in Threads, CheckShort(t)
      PROVE  CallsType'
  <2>1. Lesser(CanUse[PortOf[t]] \div Fraction, len[t]) \in Nat
    BY <1>1, PartType, LesserType
  <2>. QED
    BY <1>1, <1>8, <2>1 DEF CheckShort, Goto
<1>9. ASSUME NEW t \in Threads, TakeSpace(t)
      PROVE  CallsType'
  <2>1. Kind[PortOf[t]] # "sub"
    BY <1>9 DEF TakeSpace, Places
  <2>2. Usable(PortOf[t]) - level[PortOf[t]] \in Nat
    <3>1. MinWrite \in Nat /\ MinWrite <= Usable(PortOf[t]) - level[PortOf[t]]
      BY <1>9, <2>1, EsParserAssumption DEF TakeSpace, Fits
    <3>. QED
      BY <1>1, <3>1, UsableType
  <2>3. Lesser(Usable(PortOf[t]) - level[PortOf[t]], count[t]) \in Nat
    BY <1>1, <2>2, LesserType
  <2>. QED
    BY <1>1, <1>9, <2>3 DEF TakeSpace, Goto
<1>10. ASSUME NEW t \in Threads, TooShort(t)
      PROVE  CallsType'
  BY <1>1, <1>10 DEF TooShort, GiveUp, Goto
<1>11. ASSUME NEW t \in Threads, TakePart(t)
      PROVE  CallsType'
  BY <1>1, <1>11 DEF TakePart, Goto
<1>12. ASSUME NEW t \in Threads, SpaceFound(t)
      PROVE  CallsType'
  BY <1>1, <1>12 DEF SpaceFound, Goto
<1>13. ASSUME NEW t \in Threads, SpaceTimeout(t)
      PROVE  CallsType'
  BY <1>1, <1>13 DEF SpaceTimeout, GiveUp, Goto
<1>14. ASSUME NEW t \in Threads, Lock(t)
      PROVE  CallsType'
  BY <1>1, <1>14 DEF Lock, Goto
<1>15. ASSUME NEW t \in Threads, AudioCopy(t)
      PROVE  CallsType'
  <2>1. UNCHANGED ret /\ \E j \in 0..len[t] : ReturnLen(t, j)
    BY <1>15 DEF AudioCopy
  <2>. QED
    BY <1>1, <2>1 DEF ReturnLen, Goto
<1>16. ASSUME NEW t \in Threads, FetchFault(t)
      PROVE  CallsType'
  BY <1>1, <1>16 DEF FetchFault, ReturnErr, GiveUp, Goto
<1>17. ASSUME NEW t \in Threads, Program(t)
      PROVE  CallsType'
  <2>1. Lesser(len[t], FetchBuf) \in Nat
    BY <1>1, LesserType
  <2>. QED
    BY <1>1, <1>17, <2>1 DEF Program, Goto
<1>18. ASSUME NEW t \in Threads, Start(t)
      PROVE  CallsType'
  BY <1>1, <1>18 DEF Start, Goto
<1>19. ASSUME NEW t \in Threads, Done(t)
      PROVE  CallsType'
  <2>1. flen[t] <= len[t]
    BY <1>19 DEF Done, Places
  <2>. QED
    BY <1>1, <1>19, <2>1 DEF Done, ReturnLen, Goto
<1>20. ASSUME NEW t \in Threads, Expire(t)
      PROVE  CallsType'
  <2>1. flen[t] <= len[t]
    BY <1>20 DEF Expire, TimesOut, Places
  <2>2. CASE Moved(t)
    BY <1>1, <1>20, <2>1, <2>2 DEF Expire, ReturnLen, Goto
  <2>3. CASE ~Moved(t)
    BY <1>1, <1>20, <2>3 DEF Expire, ReturnErr, GiveUp, Goto
  <2>. QED
    BY <2>2, <2>3
<1>21. ASSUME NEW t \in Threads, Interrupted(t)
      PROVE  CallsType'
  BY <1>1, <1>21 DEF Interrupted, ReturnErr, GiveUp, Goto
<1>22. ASSUME Move
      PROVE  CallsType'
  BY <1>1, <1>22 DEF Move
<1>23. ASSUME Found
      PROVE  CallsType'
  BY <1>1, <1>23 DEF Found
<1>24. ASSUME esparser_isr
      PROVE  CallsType'
  BY <1>1, <1>24 DEF esparser_isr
<1>25. ASSUME UNCHANGED vars
      PROVE  CallsType'
  BY <1>1, <1>25 DEF vars
<1>. QED
  BY <1>2, <1>3, <1>4, <1>5, <1>6, <1>7, <1>8, <1>9, <1>10, <1>11, <1>12,
     <1>13, <1>14, <1>15, <1>16, <1>17, <1>18, <1>19, <1>20, <1>21, <1>22,
     <1>23, <1>24, <1>25 DEF Next, ThreadStep

\* All of it.
LEMMA TypeStep == TypeOK /\ Uses /\ Places /\ [Next]_vars => TypeOK'
BY ParserTypeStep, RingsTypeStep, CallsTypeStep DEF TypeOK

-----------------------------------------------------------------------------
(* The parser and the thread that waits for it *)

\* No signal ends a wait, and the interrupt comes within the 200 ms.
Quiet == ~Signals /\ ~LateIrq

\* Before the first port is opened nobody is inside a call.
LEMMA NobodyInside ==
  Uses /\ use_count = 0 => \A t \in Threads : pc[t] = "idle"
BY FS_EmptySet DEF Uses

\* A thread that is not at its fetch, before and after, or whose fetch
\* nothing disturbs.
Undisturbed(t) ==
  /\ pc'[t] \in {"start", "wait"} <=> pc[t] \in {"start", "wait"}
  /\ pc[t] \in {"start", "wait"} =>
       /\ pc'[t] = pc[t] /\ flen'[t] = flen[t] /\ wp'[t] = wp[t]
       /\ fetched'[PortOf[t]] = fetched[PortOf[t]]

\* A step that leaves the parser and all fetches alone leaves it with the
\* thread that waits.
LEMMA FetchKept ==
  ASSUME Owned, Timely, UNCHANGED parser,
         \A t \in Threads : Undisturbed(t)
  PROVE  Owned' /\ Timely'
<1>1. \A t \in Threads : (pc'[t] = "wait" <=> pc[t] = "wait")
  BY DEF Undisturbed
<1>2. hport' = hport /\ hleft' = hleft /\ hw' = hw
  BY DEF parser
<1>3. Owned'
  <2>1. hw' = "fetch" => \E t \in Threads : Waits(t)'
    BY <1>1, <1>2 DEF Owned, Waits
  <2>2. \A t \in Threads : pc'[t] \in {"start", "wait"} => hport' = PortOf[t]
    BY <1>2 DEF Owned, Undisturbed
  <2>3. \A t \in Threads : pc'[t] = "wait" => hleft' <= flen'[t]
    BY <1>1, <1>2 DEF Owned, Undisturbed
  <2>. QED
    BY <1>2, <2>1, <2>2, <2>3 DEF Owned
<1>4. Timely'
  <2>1. irq' => hw' = "idle" /\ ~search_done' /\ \E t \in Threads : Waits(t)'
    BY <1>1, <1>2 DEF Timely, Waits, parser
  <2>2. \A t \in Threads : pc'[t] = "start" =>
          ~search_done' /\ hw' = "idle" /\ fetched'[PortOf[t]] = wp'[t]
    BY <1>2 DEF Timely, Undisturbed, parser
  <2>3. \A t \in Threads : pc'[t] = "wait" =>
          /\ search_done' <=> hw' = "idle" /\ ~irq'
          /\ fetched'[PortOf[t]] + hleft' = wp'[t] + flen'[t]
    BY <1>1, <1>2 DEF Timely, Undisturbed, parser
  <2>. QED
    BY <2>1, <2>2, <2>3 DEF Timely
<1>. QED
  BY <1>3, <1>4

\* The mutex keeps all other threads away from a thread's fetch.
LEMMA FetchStep ==
  ASSUME Quiet
  PROVE  /\ TypeOK /\ TypeOK' /\ Uses /\ Places /\ Owned /\ Timely
         /\ [Next]_vars
         => Owned' /\ Timely'
<1> SUFFICES ASSUME TypeOK, TypeOK', Uses, Places, Owned, Timely, [Next]_vars
             PROVE  Owned' /\ Timely'
  OBVIOUS
<1>. USE DEF vars, calls, life, rings
<1>1. /\ CallsType /\ fetched \in [Ports -> Nat]
      /\ PortOf \in [Threads -> Ports]
  BY EsParserAssumption DEF TypeOK, RingsType
<1>2. \A t, u \in Threads : InParser(t) /\ InParser(u) => t = u
  BY DEF Places
<1>3. Nobody \notin Threads
  BY EsParserAssumption
<1>4. ASSUME NEW p \in Ports, Open(p)
      PROVE  Owned' /\ Timely'
  <2>1. CASE use_count = 0
    <3>1. \A t \in Threads : pc'[t] = "idle"
      BY <2>1, <1>4, NobodyInside DEF Open
    <3>2. hw' = "idle" /\ hleft' = 0 /\ ~irq'
      BY <2>1, <1>4 DEF Open, ResetParser
    <3>. QED
      BY <3>1, <3>2 DEF Owned, Timely
  <2>2. CASE use_count # 0
    <3>1. UNCHANGED parser
      BY <2>2, <1>4 DEF Open, ResetParser, parser
    <3>2. \A u \in Threads : Undisturbed(u)
      <4>1. \A u \in Threads : pc[u] # "idle" => PortOf[u] # p
        BY <1>4 DEF Open, Uses
      <4>. QED
        BY <1>1, <1>4, <4>1 DEF Undisturbed, Open
    <3>. QED
      BY <3>1, <3>2, FetchKept
  <2>. QED
    BY <2>1, <2>2
<1>5. ASSUME NEW p \in Ports, OpenFail(p)
      PROVE  Owned' /\ Timely'
  <2>1. CASE use_count = 0
    <3>1. \A t \in Threads : pc'[t] = "idle"
      BY <2>1, <1>5, NobodyInside DEF OpenFail
    <3>2. hw' = "idle" /\ hleft' = 0 /\ ~irq'
      BY <2>1, <1>5 DEF OpenFail, ResetParser
    <3>. QED
      BY <3>1, <3>2 DEF Owned, Timely
  <2>2. CASE use_count # 0
    <3>1. UNCHANGED parser
      BY <2>2, <1>5 DEF OpenFail, ResetParser, parser
    <3>2. \A u \in Threads : Undisturbed(u)
      BY <1>1, <1>5 DEF Undisturbed, OpenFail
    <3>. QED
      BY <3>1, <3>2, FetchKept
  <2>. QED
    BY <2>1, <2>2
<1>6. ASSUME NEW p \in Ports, Close(p)
      PROVE  Owned' /\ Timely'
  <2>1. ASSUME irq PROVE use_count > 1
    <3>1. PICK u \in Threads : Waits(u)
      BY <2>1 DEF Timely
    <3>2. PortOf[u] \in opened /\ PortOf[u] # p
      BY <3>1, <1>6 DEF Close, Waits, Uses
    <3>3. Cardinality(opened \ {p}) # 0
      BY <3>2, FS_RemoveElement, FS_EmptySet DEF Uses
    <3>4. Cardinality(opened \ {p}) = use_count - 1 /\ use_count \in Nat
      BY <1>6, FS_RemoveElement, FS_CardinalityType DEF Close, Uses
    <3>5. use_count - 1 \in Nat
      BY <1>6, <3>4, FS_RemoveElement, FS_CardinalityType DEF Uses
    <3>. QED
      BY <3>3, <3>4, <3>5
  <2>2. irq \in BOOLEAN
    BY DEF TypeOK, ParserType
  <2>3. UNCHANGED parser
    BY <1>6, <2>1, <2>2 DEF Close, parser
  <2>4. \A u \in Threads : Undisturbed(u)
    BY <1>1, <1>6 DEF Undisturbed, Close
  <2>. QED
    BY <2>3, <2>4, FetchKept
<1>7. ASSUME NEW p \in Ports, Consume(p)
      PROVE  Owned' /\ Timely'
  <2>1. UNCHANGED parser
    BY <1>7 DEF Consume
  <2>2. \A u \in Threads : Undisturbed(u)
    BY <1>1, <1>7 DEF Undisturbed, Consume, CallsType
  <2>. QED
    BY <2>1, <2>2, FetchKept
<1>8. ASSUME NEW t \in Threads, NEW n \in Counts, Begin(t, n)
      PROVE  Owned' /\ Timely'
  <2>1. UNCHANGED parser
    BY <1>8 DEF Begin
  <2>2. \A u \in Threads : Undisturbed(u)
    BY <1>1, <1>8 DEF Undisturbed, Begin, Goto, CallsType
  <2>. QED
    BY <2>1, <2>2, FetchKept
<1>9. ASSUME NEW t \in Threads, CheckFits(t)
      PROVE  Owned' /\ Timely'
  <2>1. UNCHANGED parser
    BY <1>9 DEF CheckFits
  <2>2. \A u \in Threads : Undisturbed(u)
    BY <1>1, <1>9 DEF Undisturbed, CheckFits, Goto, CallsType
  <2>. QED
    BY <2>1, <2>2, FetchKept
<1>10. ASSUME NEW t \in Threads, CheckShort(t)
      PROVE  Owned' /\ Timely'
  <2>1. UNCHANGED parser
    BY <1>10 DEF CheckShort
  <2>2. \A u \in Threads : Undisturbed(u)
    BY <1>1, <1>10 DEF Undisturbed, CheckShort, Fits, Goto, CallsType
  <2>. QED
    BY <2>1, <2>2, FetchKept
<1>11. ASSUME NEW t \in Threads, TakeSpace(t)
      PROVE  Owned' /\ Timely'
  <2>1. UNCHANGED parser
    BY <1>11 DEF TakeSpace
  <2>2. \A u \in Threads : Undisturbed(u)
    BY <1>1, <1>11 DEF Undisturbed, TakeSpace, Goto, CallsType
  <2>. QED
    BY <2>1, <2>2, FetchKept
<1>12. ASSUME NEW t \in Threads, TooShort(t)
      PROVE  Owned' /\ Timely'
  <2>1. UNCHANGED parser
    BY <1>12 DEF TooShort
  <2>2. \A u \in Threads : Undisturbed(u)
    BY <1>1, <1>12 DEF Undisturbed, TooShort, GiveUp, Goto, CallsType
  <2>. QED
    BY <2>1, <2>2, FetchKept
<1>13. ASSUME NEW t \in Threads, TakePart(t)
      PROVE  Owned' /\ Timely'
  <2>1. UNCHANGED parser
    BY <1>13 DEF TakePart
  <2>2. \A u \in Threads : Undisturbed(u)
    BY <1>1, <1>13 DEF Undisturbed, TakePart, Goto, CallsType
  <2>. QED
    BY <2>1, <2>2, FetchKept
<1>14. ASSUME NEW t \in Threads, SpaceFound(t)
      PROVE  Owned' /\ Timely'
  <2>1. UNCHANGED parser
    BY <1>14 DEF SpaceFound
  <2>2. \A u \in Threads : Undisturbed(u)
    BY <1>1, <1>14 DEF Undisturbed, SpaceFound, Goto, CallsType
  <2>. QED
    BY <2>1, <2>2, FetchKept
<1>15. ASSUME NEW t \in Threads, SpaceTimeout(t)
      PROVE  Owned' /\ Timely'
  <2>1. UNCHANGED parser
    BY <1>15 DEF SpaceTimeout
  <2>2. \A u \in Threads : Undisturbed(u)
    BY <1>1, <1>15 DEF Undisturbed, SpaceTimeout, GiveUp, Goto, CallsType
  <2>. QED
    BY <2>1, <2>2, FetchKept
<1>16. ASSUME NEW t \in Threads, Lock(t)
      PROVE  Owned' /\ Timely'
  <2>1. UNCHANGED parser
    BY <1>16 DEF Lock
  <2>2. \A u \in Threads : Undisturbed(u)
    BY <1>1, <1>16 DEF Undisturbed, Lock, Goto, CallsType
  <2>. QED
    BY <2>1, <2>2, FetchKept
<1>17. ASSUME NEW t \in Threads, AudioCopy(t)
      PROVE  Owned' /\ Timely'
  <2>1. UNCHANGED parser /\ mutex = t /\ pc[t] = "copy"
    BY <1>17 DEF AudioCopy, parser, Places, InParser
  <2>2. \A u \in Threads : pc[u] \notin {"start", "wait"}
    BY <1>2, <2>1 DEF InParser
  <2>3. \A u \in Threads : pc'[u] \notin {"start", "wait"}
    <3>1. PICK j \in 0..len[t] : ReturnLen(t, j)
      BY <1>17 DEF AudioCopy
    <3>. QED
      BY <1>1, <2>2, <3>1 DEF ReturnLen, Goto, CallsType
  <2>. QED
    BY <2>1, <2>2, <2>3, FetchKept DEF Undisturbed
<1>18. ASSUME NEW t \in Threads, FetchFault(t)
      PROVE  Owned' /\ Timely'
  <2>1. UNCHANGED parser
    BY <1>18 DEF FetchFault
  <2>2. \A u \in Threads : Undisturbed(u)
    BY <1>1, <1>18 DEF Undisturbed, FetchFault, ReturnErr, GiveUp, Goto, CallsType
  <2>. QED
    BY <2>1, <2>2, FetchKept
<1>19. ASSUME NEW t \in Threads, Program(t)
      PROVE  Owned' /\ Timely'
  <2>1. \A u \in Threads : pc[u] \notin {"start", "wait"}
    BY <1>19, <1>2 DEF Program, InParser
  <2>2. \A u \in Threads : pc'[u] \in {"start", "wait"} => u = t /\ pc'[u] = "start"
    BY <1>1, <1>19, <2>1 DEF Program, Goto, CallsType
  <2>3. hw # "fetch" /\ ~irq
    BY <2>1 DEF Owned, Timely, Waits
  <2>4. hw' = "idle" /\ hleft' = 0 /\ ~irq' /\ ~search_done' /\ hport' = PortOf[t]
    BY <1>19, <2>3 DEF Program, Owned, TypeOK, ParserType
  <2>5. wp'[t] = fetched'[PortOf[t]]
    BY <1>1, <1>19 DEF Program, CallsType
  <2>. QED
    BY <2>2, <2>4, <2>5 DEF Owned, Timely
<1>20. ASSUME NEW t \in Threads, Start(t)
      PROVE  Owned' /\ Timely'
  <2>1. \A u \in Threads : pc'[u] \in {"start", "wait"} => u = t /\ pc'[u] = "wait"
    BY <1>1, <1>2, <1>20 DEF Start, Goto, CallsType, InParser
  <2>2. /\ hw' = "fetch" /\ hleft' = flen[t] /\ hport' = PortOf[t]
        /\ UNCHANGED <<search_done, irq, fetched, wp, flen>>
    BY <1>20 DEF Start, Owned
  <2>3. pc'[t] = "wait" /\ ~search_done /\ hw = "idle"
        /\ fetched[PortOf[t]] = wp[t]
    BY <1>1, <1>20 DEF Start, Goto, CallsType, Timely
  <2>4. ~irq
    BY <1>2, <1>20 DEF Start, Timely, Waits, InParser
  <2>5. flen[t] \in Nat /\ wp[t] \in Nat
    BY <1>1 DEF CallsType
  <2>6. Owned'
    BY <2>1, <2>2, <2>3, <2>5 DEF Owned, Waits
  <2>7. Timely'
    BY <2>1, <2>2, <2>3, <2>4, <2>5 DEF Timely, Waits
  <2>. QED
    BY <2>6, <2>7
<1>21. ASSUME NEW t \in Threads, Done(t)
      PROVE  Owned' /\ Timely'
  <2>1. \A u \in Threads : pc'[u] \notin {"start", "wait"}
    BY <1>1, <1>2, <1>21 DEF Done, ReturnLen, Goto, CallsType, InParser
  <2>2. hw = "idle" /\ ~irq
    BY <1>21 DEF Done, Timely
  <2>3. hw' = "idle" /\ ~irq' /\ hleft' = 0
    BY <1>21, <2>2 DEF Done, parser, Owned
  <2>. QED
    BY <2>1, <2>3 DEF Owned, Timely
<1>22. ASSUME NEW t \in Threads, Expire(t)
      PROVE  Owned' /\ Timely'
  <2>1. pc' = [pc EXCEPT ![t] = pc'[t]] /\ pc'[t] \notin {"start", "wait"}
    <3>1. ReturnLen(t, flen[t]) \/ ReturnErr(t, "EAGAIN")
      BY <1>22 DEF Expire
    <3>2. ReturnLen(t, flen[t]) =>
            pc' = [pc EXCEPT ![t] = pc'[t]] /\ pc'[t] \notin {"start", "wait"}
      BY <1>1 DEF ReturnLen, Goto, CallsType
    <3>3. ReturnErr(t, "EAGAIN") =>
            pc' = [pc EXCEPT ![t] = pc'[t]] /\ pc'[t] \notin {"start", "wait"}
      BY <1>1 DEF ReturnErr, GiveUp, Goto, CallsType
    <3>. QED
      BY <3>1, <3>2, <3>3
  <2>4. pc[t] = "wait"
    BY <1>22 DEF Expire, TimesOut
  <2>5. \A u \in Threads : pc'[u] \notin {"start", "wait"}
    BY <1>1, <1>2, <2>1, <2>4 DEF CallsType, InParser
  <2>2. hw' = "idle" /\ hleft' = 0 /\ ~irq'
    BY <1>22 DEF Expire, TimesOut, Quiet
  <2>. QED
    BY <2>2, <2>5 DEF Owned, Timely
<1>23. ASSUME NEW t \in Threads, Interrupted(t)
      PROVE  Owned' /\ Timely'
  BY <1>23 DEF Interrupted, Quiet
<1>24. ASSUME Move
      PROVE  Owned' /\ Timely'
  <2>1. PICK k \in 1..hleft :
           /\ hleft' = hleft - k
           /\ fetched' = [fetched EXCEPT ![hport] = @ + k]
    BY <1>24 DEF Move
  <2>2. PICK t \in Threads : Waits(t)
    BY <1>24 DEF Move, Owned
  <2>3. /\ hw = "fetch" /\ pc[t] = "wait" /\ hport = PortOf[t]
        /\ UNCHANGED <<hw, hport, irq, search_done, pc, wp, flen>>
    BY <1>24, <2>2 DEF Move, Waits
  <2>4. \A u \in Threads : pc[u] \in {"start", "wait"} => u = t
    BY <1>2, <2>3 DEF InParser
  <2>5. /\ hleft \in Nat /\ k \in Nat /\ fetched[hport] \in Nat
        /\ wp[t] \in Nat /\ flen[t] \in Nat
    BY <1>1, <2>1, <2>3 DEF TypeOK, ParserType, CallsType
  <2>6. fetched'[hport] = fetched[hport] + k
    BY <1>1, <2>1, <2>3
  <2>7. hleft <= flen[t] /\ fetched[hport] + hleft = wp[t] + flen[t]
    BY <2>3 DEF Owned, Timely
  <2>8. hleft' <= flen[t] /\ fetched'[hport] + hleft' = wp[t] + flen[t]
    BY <2>1, <2>5, <2>6, <2>7
  <2>9. ~irq
    BY <2>3 DEF Timely
  <2>10. ~search_done
    BY <2>3 DEF Timely
  <2>11. Owned'
    BY <2>2, <2>3, <2>4, <2>8 DEF Owned, Waits
  <2>12. Timely'
    BY <2>3, <2>4, <2>8, <2>9, <2>10 DEF Timely
  <2>. QED
    BY <2>11, <2>12
<1>25. ASSUME Found
      PROVE  Owned' /\ Timely'
  <2>1. PICK t \in Threads : Waits(t)
    BY <1>25 DEF Found, Owned
  <2>2. /\ hw = "fetch" /\ pc[t] = "wait" /\ hport = PortOf[t]
        /\ hleft = 0 /\ hw' = "idle" /\ irq' = TRUE
        /\ UNCHANGED <<hleft, hport, search_done, pc, wp, flen, fetched>>
    BY <1>25, <2>1 DEF Found, Waits
  <2>3. \A u \in Threads : pc[u] \in {"start", "wait"} => u = t
    BY <1>2, <2>2 DEF InParser
  <2>4. ~search_done
    BY <2>2 DEF Timely
  <2>5. Owned'
    BY <2>2, <2>3 DEF Owned, Waits
  <2>6. Timely'
    BY <2>1, <2>2, <2>3, <2>4 DEF Timely, Waits
  <2>. QED
    BY <2>5, <2>6
<1>26. ASSUME esparser_isr
      PROVE  Owned' /\ Timely'
  <2>1. /\ irq /\ ~irq' /\ search_done' = TRUE
        /\ UNCHANGED <<hw, hleft, hport, pc, wp, flen, fetched>>
    BY <1>26 DEF esparser_isr
  <2>2. PICK t \in Threads : Waits(t) /\ hw = "idle"
    BY <2>1 DEF Timely
  <2>3. \A u \in Threads : pc[u] \in {"start", "wait"} => u = t
    BY <1>2, <2>2 DEF InParser, Waits
  <2>4. Owned'
    BY <2>1, <2>2 DEF Owned, Waits
  <2>5. Timely'
    BY <2>1, <2>2, <2>3 DEF Timely, Waits
  <2>. QED
    BY <2>4, <2>5
<1>27. ASSUME UNCHANGED vars
      PROVE  Owned' /\ Timely'
  <2>1. UNCHANGED parser
    BY <1>27 DEF parser
  <2>2. \A u \in Threads : Undisturbed(u)
    BY <1>1, <1>27 DEF Undisturbed, parser, CallsType
  <2>. QED
    BY <2>1, <2>2, FetchKept
<1>. QED
  BY <1>4, <1>5, <1>6, <1>7, <1>8, <1>9, <1>10, <1>11, <1>12, <1>13,
     <1>14, <1>15, <1>16, <1>17, <1>18, <1>19, <1>20, <1>21, <1>22, <1>23,
     <1>24, <1>25, <1>26, <1>27 DEF Next, ThreadStep

-----------------------------------------------------------------------------
(* The space a thread found stays there *)

\* thread_rw has one work item for a port, and its task serialises users.
OneWriter == \A t, u \in Threads : PortOf[t] = PortOf[u] => t = u

ClaimOf(t) ==
  /\ Kind[PortOf[t]] # "sub" => level[PortOf[t]] + Claim(t) <= Usable(PortOf[t])
  /\ pc[t] = "space" => written[t] = 0
  /\ len[t] <= count[t]

\* A thread does not lose its claim while it rests and nobody fills its ring.
LEMMA ClaimKept ==
  ASSUME NEW t \in Threads, CallsType, RingsType', RingsType,
         hleft \in Nat, hleft' \in Nat, PortOf[t] \in Ports,
         Usable(PortOf[t]) \in Nat, ClaimOf(t),
         pc'[t] = pc[t], len'[t] = len[t], count'[t] = count[t],
         flen'[t] = flen[t], written'[t] = written[t],
         level'[PortOf[t]] <= level[PortOf[t]],
         pc[t] = "wait" => hleft' = hleft
  PROVE  ClaimOf(t)'
<1>1. Claim(t)' = Claim(t)
  BY DEF Claim
<1>2. Claim(t) \in Int
  BY DEF Claim, CallsType
<1>3. level[PortOf[t]] \in Nat /\ level'[PortOf[t]] \in Nat
  BY DEF RingsType
<1>. QED
  BY <1>1, <1>2, <1>3 DEF ClaimOf

\* Nobody else writes to the thread's ring, and what it adds it had claimed.
LEMMA ClaimStep ==
  ASSUME Quiet, OneWriter
  PROVE  /\ TypeOK /\ TypeOK' /\ Uses /\ Places /\ Owned /\ Timely
         /\ Claimed /\ [Next]_vars
         => Claimed'
<1> SUFFICES ASSUME TypeOK, TypeOK', Uses, Places, Owned, Timely, Claimed,
                    [Next]_vars
             PROVE  Claimed'
  OBVIOUS
<1>. USE DEF vars, calls, life, parser
<1>1. /\ CallsType /\ RingsType /\ RingsType' /\ hleft \in Nat /\ hleft' \in Nat
      /\ \A t \in Threads : PortOf[t] \in Ports /\ Usable(PortOf[t]) \in Nat
  BY UsableType, PortOfType DEF TypeOK, ParserType
<1>2. \A t \in Threads : ClaimOf(t)
  BY DEF Claimed, ClaimOf
<1>3. (\A t \in Threads : ClaimOf(t)') => Claimed'
  BY DEF Claimed, ClaimOf
<1>4. \A t, u \in Threads : InParser(t) /\ InParser(u) => t = u
  BY DEF Places
<1>5. \A t \in Threads :
        /\ level[PortOf[t]] \in Nat /\ len[t] \in Nat /\ count[t] \in Nat
        /\ flen[t] \in Nat /\ written[t] \in Nat
  BY <1>1 DEF CallsType, RingsType
<1>6. \A t \in Threads : Fits(PortOf[t], len[t])
        <=> Kind[PortOf[t]] = "sub" \/ level[PortOf[t]] + len[t] <= Usable(PortOf[t])
  BY <1>1, <1>5 DEF Fits
<1>7. ASSUME NEW p \in Ports, Open(p)
      PROVE  Claimed'
  <2>1. /\ UNCHANGED calls /\ \A t \in Threads : pc[t] # "idle" => hleft' = hleft
    BY <1>7, NobodyInside DEF Open, ResetParser
  <2>2. \A t \in Threads : level'[PortOf[t]] <= level[PortOf[t]]
    <3>1. level \in [Ports -> Nat] /\ level' = [level EXCEPT ![p] = 0]
      BY <1>1, <1>7 DEF Open, RingsType
    <3>. QED
      BY <1>1, <1>5, <3>1
  <2>3. \A t \in Threads : ClaimOf(t)'
    BY <1>1, <1>2, <2>1, <2>2, ClaimKept
  <2>. QED
    BY <1>3, <2>3
<1>8. ASSUME NEW p \in Ports, OpenFail(p)
      PROVE  Claimed'
  <2>1. /\ UNCHANGED calls /\ \A t \in Threads : pc[t] = "wait" => hleft' = hleft
    BY <1>8, NobodyInside DEF OpenFail, ResetParser
  <2>2. \A t \in Threads : level'[PortOf[t]] <= level[PortOf[t]]
    BY <1>5, <1>8 DEF OpenFail, rings
  <2>3. \A t \in Threads : ClaimOf(t)'
    BY <1>1, <1>2, <2>1, <2>2, ClaimKept
  <2>. QED
    BY <1>3, <2>3
<1>9. ASSUME NEW p \in Ports, Close(p)
      PROVE  Claimed'
  <2>1. /\ UNCHANGED calls /\ \A t \in Threads : pc[t] = "wait" => hleft' = hleft
    BY <1>9 DEF Close
  <2>2. \A t \in Threads : level'[PortOf[t]] <= level[PortOf[t]]
    BY <1>5, <1>9 DEF Close, rings
  <2>3. \A t \in Threads : ClaimOf(t)'
    BY <1>1, <1>2, <2>1, <2>2, ClaimKept
  <2>. QED
    BY <1>3, <2>3
<1>10. ASSUME NEW p \in Ports, Consume(p)
      PROVE  Claimed'
  <2>1. PICK k \in 1..level[p] : level' = [level EXCEPT ![p] = @ - k]
    BY <1>10 DEF Consume
  <2>2. UNCHANGED calls /\ hleft' = hleft
    BY <1>10 DEF Consume
  <2>3. level \in [Ports -> Nat] /\ k \in Nat
    BY <1>1, <2>1 DEF RingsType
  <2>4. \A t \in Threads : level'[PortOf[t]] <= level[PortOf[t]]
    BY <1>5, <2>1, <2>3
  <2>5. \A t \in Threads : ClaimOf(t)'
    BY <1>1, <1>2, <2>2, <2>4, ClaimKept
  <2>. QED
    BY <1>3, <2>5
<1>11. ASSUME NEW t \in Threads, NEW n \in Counts, Begin(t, n)
      PROVE  Claimed'
  <2>. DEFINE p == PortOf[t]
  <2>1. ASSUME NEW u \in Threads, u # t PROVE ClaimOf(u)'
    <3>1. /\ pc'[u] = pc[u] /\ len'[u] = len[u] /\ count'[u] = count[u]
          /\ flen'[u] = flen[u] /\ written'[u] = written[u]
      BY <1>1, <2>1, <1>11 DEF Begin, Goto, CallsType
    <3>2. level'[PortOf[u]] <= level[PortOf[u]] /\ (pc[u] = "wait" => hleft' = hleft)
      BY <1>5, <1>11 DEF Begin, rings
    <3>. QED
      BY <1>1, <1>2, <3>1, <3>2, ClaimKept
  <2>2. /\ pc[t] = "idle" /\ pc'[t] = "check"
        /\ len'[t] = n /\ count'[t] = n /\ written'[t] = 0
        /\ n \in Nat /\ level'[p] = level[p]
    BY <1>1, <1>11, EsParserAssumption DEF Begin, Goto, CallsType, RingsType, rings
  <2>3. Claim(t)' = 0
    BY <2>2 DEF Claim
  <2>4. Kind[p] # "sub" => level[PortOf[t]] + (0) <= Usable(p)
    BY <1>1, <1>2, <1>5, <1>6, <2>2 DEF ClaimOf, Claim, Fits
  <2>5. ClaimOf(t)'
    BY <1>2, <1>5, <2>2, <2>3, <2>4 DEF ClaimOf
  <2>. QED
    BY <1>3, <2>1, <2>5
<1>12. ASSUME NEW t \in Threads, CheckFits(t)
      PROVE  Claimed'
  <2>. DEFINE p == PortOf[t]
  <2>1. ASSUME NEW u \in Threads, u # t PROVE ClaimOf(u)'
    <3>1. /\ pc'[u] = pc[u] /\ len'[u] = len[u] /\ count'[u] = count[u]
          /\ flen'[u] = flen[u] /\ written'[u] = written[u]
      BY <1>1, <2>1, <1>12 DEF CheckFits, Goto, CallsType
    <3>2. level'[PortOf[u]] <= level[PortOf[u]] /\ (pc[u] = "wait" => hleft' = hleft)
      BY <1>5, <1>12 DEF CheckFits, rings
    <3>. QED
      BY <1>1, <1>2, <3>1, <3>2, ClaimKept
  <2>2. /\ pc[t] = "check" /\ pc'[t] = "lock"
        /\ Fits(p, count[t])
        /\ len'[t] = len[t] /\ count'[t] = count[t] /\ level'[p] = level[p]
    BY <1>1, <1>12 DEF CheckFits, Goto, CallsType, RingsType, rings
  <2>3. Claim(t)' = len[t]
    BY <2>2 DEF Claim
  <2>4. Kind[p] # "sub" => level[PortOf[t]] + (len[t]) <= Usable(p)
    BY <1>1, <1>2, <1>5, <1>6, <2>2 DEF ClaimOf, Claim, Fits
  <2>5. ClaimOf(t)'
    BY <1>2, <1>5, <2>2, <2>3, <2>4 DEF ClaimOf
  <2>. QED
    BY <1>3, <2>1, <2>5
<1>13. ASSUME NEW t \in Threads, CheckShort(t)
      PROVE  Claimed'
  <2>. DEFINE p == PortOf[t]
  <2>1. ASSUME NEW u \in Threads, u # t PROVE ClaimOf(u)'
    <3>1. /\ pc'[u] = pc[u] /\ len'[u] = len[u] /\ count'[u] = count[u]
          /\ flen'[u] = flen[u] /\ written'[u] = written[u]
      BY <1>1, <2>1, <1>13 DEF CheckShort, Goto, CallsType
    <3>2. level'[PortOf[u]] <= level[PortOf[u]] /\ (pc[u] = "wait" => hleft' = hleft)
      BY <1>5, <1>13 DEF CheckShort, rings
    <3>. QED
      BY <1>1, <1>2, <3>1, <3>2, ClaimKept
  <2>2. /\ pc[t] = "check" /\ pc'[t] \in {"short", "part"}
        /\ pc'[t] = "part" => len'[t] = Lesser(CanUse[p] \div Fraction, len[t])
        /\ pc'[t] = "short" => len'[t] = len[t]
        /\ count'[t] = count[t] /\ level'[p] = level[p] /\ written'[t] = written[t]
    BY <1>1, <1>13 DEF CheckShort, Goto, CallsType, RingsType, rings
  <2>6. len'[t] \in Nat /\ len'[t] <= len[t]
    <3>1. CASE pc'[t] = "part"
      <4>1. CanUse[p] \div Fraction \in Nat /\ len[t] \in Nat
        BY <1>1, <1>5, PartType
      <4>. QED
        BY <2>2, <3>1, <4>1, LesserType
    <3>2. CASE pc'[t] = "short"
      BY <1>5, <2>2, <3>2
    <3>. QED
      BY <2>2, <3>1, <3>2
  <2>3. Claim(t)' = IF pc'[t] = "part" /\ written[t] > 0 THEN len'[t] ELSE 0
    BY <2>2 DEF Claim
  <2>4. Kind[p] # "sub" => level[PortOf[t]] + (IF pc'[t] = "part" /\ written[t] > 0 THEN len'[t] ELSE 0) <= Usable(p)
    BY <1>1, <1>2, <1>5, <2>2, <2>6 DEF ClaimOf, Claim
  <2>5. ClaimOf(t)'
    BY <1>2, <1>5, <2>2, <2>3, <2>4, <2>6 DEF ClaimOf
  <2>. QED
    BY <1>3, <2>1, <2>5
<1>14. ASSUME NEW t \in Threads, TakeSpace(t)
      PROVE  Claimed'
  <2>. DEFINE p == PortOf[t]
  <2>. DEFINE L == Lesser(Usable(PortOf[t]) - level[PortOf[t]], count[t])
  <2>6. L <= count[t] /\ L <= Usable(PortOf[t]) - level[PortOf[t]]
    BY <1>1, <1>5 DEF Lesser
  <2>7. L \in Int
    BY <1>1, <1>5 DEF Lesser
  <2>. HIDE DEF L
  <2>1. ASSUME NEW u \in Threads, u # t PROVE ClaimOf(u)'
    <3>1. /\ pc'[u] = pc[u] /\ len'[u] = len[u] /\ count'[u] = count[u]
          /\ flen'[u] = flen[u] /\ written'[u] = written[u]
      BY <1>1, <2>1, <1>14 DEF TakeSpace, Goto, CallsType
    <3>2. level'[PortOf[u]] <= level[PortOf[u]] /\ (pc[u] = "wait" => hleft' = hleft)
      BY <1>5, <1>14 DEF TakeSpace, rings
    <3>. QED
      BY <1>1, <1>2, <3>1, <3>2, ClaimKept
  <2>2. /\ pc[t] = "short" /\ pc'[t] = "lock"
        /\ len'[t] = L
        /\ count'[t] = count[t] /\ level'[p] = level[p]
    BY <1>1, <1>14 DEF TakeSpace, Goto, CallsType, RingsType, rings, L
  <2>3. Claim(t)' = L
    BY <2>2 DEF Claim
  <2>4. Kind[p] # "sub" => level[PortOf[t]] + (L) <= Usable(p)
    BY <1>1, <1>5, <2>6, <2>7
  <2>5. ClaimOf(t)'
    BY <1>2, <1>5, <2>2, <2>3, <2>4, <2>6 DEF ClaimOf
  <2>. QED
    BY <1>3, <2>1, <2>5
<1>15. ASSUME NEW t \in Threads, TooShort(t)
      PROVE  Claimed'
  <2>. DEFINE p == PortOf[t]
  <2>1. ASSUME NEW u \in Threads, u # t PROVE ClaimOf(u)'
    <3>1. /\ pc'[u] = pc[u] /\ len'[u] = len[u] /\ count'[u] = count[u]
          /\ flen'[u] = flen[u] /\ written'[u] = written[u]
      BY <1>1, <2>1, <1>15 DEF TooShort, GiveUp, Goto, CallsType
    <3>2. level'[PortOf[u]] <= level[PortOf[u]] /\ (pc[u] = "wait" => hleft' = hleft)
      BY <1>5, <1>15 DEF TooShort, rings
    <3>. QED
      BY <1>1, <1>2, <3>1, <3>2, ClaimKept
  <2>2. /\ pc[t] = "short" /\ pc'[t] = "idle"
        /\ len'[t] = 0 /\ count'[t] = count[t] /\ level'[p] = level[p]
    BY <1>1, <1>15 DEF TooShort, GiveUp, Goto, CallsType, RingsType, rings
  <2>3. Claim(t)' = 0
    BY <2>2 DEF Claim
  <2>4. Kind[p] # "sub" => level[PortOf[t]] + (0) <= Usable(p)
    BY <1>1, <1>2, <1>5, <1>6, <2>2 DEF ClaimOf, Claim, Fits
  <2>5. ClaimOf(t)'
    BY <1>2, <1>5, <2>2, <2>3, <2>4 DEF ClaimOf
  <2>. QED
    BY <1>3, <2>1, <2>5
<1>16. ASSUME NEW t \in Threads, TakePart(t)
      PROVE  Claimed'
  <2>. DEFINE p == PortOf[t]
  <2>6. Kind[PortOf[t]] # "sub"
    BY <1>16 DEF TakePart, Places
  <2>1. ASSUME NEW u \in Threads, u # t PROVE ClaimOf(u)'
    <3>1. /\ pc'[u] = pc[u] /\ len'[u] = len[u] /\ count'[u] = count[u]
          /\ flen'[u] = flen[u] /\ written'[u] = written[u]
      BY <1>1, <2>1, <1>16 DEF TakePart, Goto, CallsType
    <3>2. level'[PortOf[u]] <= level[PortOf[u]] /\ (pc[u] = "wait" => hleft' = hleft)
      BY <1>5, <1>16 DEF TakePart, rings
    <3>. QED
      BY <1>1, <1>2, <3>1, <3>2, ClaimKept
  <2>2. /\ pc[t] = "part" /\ pc'[t] = IF Fits(p, len[t]) THEN "lock" ELSE "space"
        /\ len'[t] = len[t] /\ count'[t] = count[t] /\ level'[p] = level[p] /\ written'[t] = written[t]
        /\ Kind[p] # "sub"
    BY <1>1, <1>16, <2>6 DEF TakePart, Goto, CallsType, RingsType, rings
  <2>3. Claim(t)' = IF Fits(p, len[t]) THEN len[t] ELSE 0
    BY <2>2, <1>5 DEF Claim
  <2>4. Kind[p] # "sub" => level[PortOf[t]] + (IF Fits(p, len[t]) THEN len[t] ELSE 0) <= Usable(p)
    BY <1>1, <1>2, <1>5, <1>6, <2>2 DEF ClaimOf, Claim, Fits
  <2>5. ClaimOf(t)'
    <3>1. written[t] > 0 => Fits(p, len[t])
      BY <1>1, <1>2, <1>5, <1>6, <2>2 DEF ClaimOf, Claim
    <3>. QED
      BY <1>2, <1>5, <2>2, <2>3, <2>4, <3>1 DEF ClaimOf
  <2>. QED
    BY <1>3, <2>1, <2>5
<1>17. ASSUME NEW t \in Threads, SpaceFound(t)
      PROVE  Claimed'
  <2>. DEFINE p == PortOf[t]
  <2>6. written[t] = 0 /\ ~Signals
    BY <1>2, <1>17 DEF ClaimOf, SpaceFound, Quiet
  <2>1. ASSUME NEW u \in Threads, u # t PROVE ClaimOf(u)'
    <3>1. /\ pc'[u] = pc[u] /\ len'[u] = len[u] /\ count'[u] = count[u]
          /\ flen'[u] = flen[u] /\ written'[u] = written[u]
      BY <1>1, <2>1, <1>17 DEF SpaceFound, Goto, CallsType
    <3>2. level'[PortOf[u]] <= level[PortOf[u]] /\ (pc[u] = "wait" => hleft' = hleft)
      BY <1>5, <1>17 DEF SpaceFound, rings
    <3>. QED
      BY <1>1, <1>2, <3>1, <3>2, ClaimKept
  <2>2. /\ pc[t] = "space" /\ pc'[t] = "lock"
        /\ Fits(p, len[t])
        /\ len'[t] = len[t] /\ count'[t] = count[t] /\ level'[p] = level[p]
    BY <1>1, <1>17, <2>6, <1>5 DEF SpaceFound, Goto, CallsType, RingsType, rings
  <2>3. Claim(t)' = len[t]
    BY <2>2 DEF Claim
  <2>4. Kind[p] # "sub" => level[PortOf[t]] + (len[t]) <= Usable(p)
    BY <1>1, <1>2, <1>5, <1>6, <2>2 DEF ClaimOf, Claim, Fits
  <2>5. ClaimOf(t)'
    BY <1>2, <1>5, <2>2, <2>3, <2>4 DEF ClaimOf
  <2>. QED
    BY <1>3, <2>1, <2>5
<1>18. ASSUME NEW t \in Threads, SpaceTimeout(t)
      PROVE  Claimed'
  <2>. DEFINE p == PortOf[t]
  <2>6. written[t] = 0
    BY <1>2, <1>18 DEF ClaimOf, SpaceTimeout
  <2>1. ASSUME NEW u \in Threads, u # t PROVE ClaimOf(u)'
    <3>1. /\ pc'[u] = pc[u] /\ len'[u] = len[u] /\ count'[u] = count[u]
          /\ flen'[u] = flen[u] /\ written'[u] = written[u]
      BY <1>1, <2>1, <1>18 DEF SpaceTimeout, GiveUp, Goto, CallsType
    <3>2. level'[PortOf[u]] <= level[PortOf[u]] /\ (pc[u] = "wait" => hleft' = hleft)
      BY <1>5, <1>18 DEF SpaceTimeout, rings
    <3>. QED
      BY <1>1, <1>2, <3>1, <3>2, ClaimKept
  <2>2. /\ pc[t] = "space" /\ pc'[t] = "idle"
        /\ len'[t] = 0 /\ count'[t] = count[t] /\ level'[p] = level[p]
    BY <1>1, <1>18, <2>6 DEF SpaceTimeout, GiveUp, Goto, CallsType, RingsType, rings
  <2>3. Claim(t)' = 0
    BY <2>2 DEF Claim
  <2>4. Kind[p] # "sub" => level[PortOf[t]] + (0) <= Usable(p)
    BY <1>1, <1>2, <1>5, <1>6, <2>2 DEF ClaimOf, Claim, Fits
  <2>5. ClaimOf(t)'
    BY <1>2, <1>5, <2>2, <2>3, <2>4 DEF ClaimOf
  <2>. QED
    BY <1>3, <2>1, <2>5
<1>19. ASSUME NEW t \in Threads, Lock(t)
      PROVE  Claimed'
  <2>. DEFINE p == PortOf[t]
  <2>1. ASSUME NEW u \in Threads, u # t PROVE ClaimOf(u)'
    <3>1. /\ pc'[u] = pc[u] /\ len'[u] = len[u] /\ count'[u] = count[u]
          /\ flen'[u] = flen[u] /\ written'[u] = written[u]
      BY <1>1, <2>1, <1>19 DEF Lock, Goto, CallsType
    <3>2. level'[PortOf[u]] <= level[PortOf[u]] /\ (pc[u] = "wait" => hleft' = hleft)
      BY <1>5, <1>19 DEF Lock, rings
    <3>. QED
      BY <1>1, <1>2, <3>1, <3>2, ClaimKept
  <2>2. /\ pc[t] = "lock" /\ pc'[t] \in {"copy", "program"}
        /\ len'[t] = len[t] /\ count'[t] = count[t] /\ level'[p] = level[p]
    BY <1>1, <1>19 DEF Lock, Goto, CallsType, RingsType, rings
  <2>3. Claim(t)' = len[t]
    BY <2>2 DEF Claim
  <2>4. Kind[p] # "sub" => level[PortOf[t]] + (len[t]) <= Usable(p)
    BY <1>1, <1>2, <1>5, <1>6, <2>2 DEF ClaimOf, Claim, Fits
  <2>5. ClaimOf(t)'
    BY <1>2, <1>5, <2>2, <2>3, <2>4 DEF ClaimOf
  <2>. QED
    BY <1>3, <2>1, <2>5
<1>20. ASSUME NEW t \in Threads, AudioCopy(t)
      PROVE  Claimed'
  <2>2. PICK j \in 0..len[t] :
           level' = [level EXCEPT ![PortOf[t]] = @ + j] /\ ReturnLen(t, j)
    BY <1>20 DEF AudioCopy
  <2>6. pc[t] = "copy" /\ j \in Nat /\ level \in [Ports -> Nat]
    BY <1>1, <1>5, <2>2, <1>20 DEF AudioCopy, RingsType
  <2>1. ASSUME NEW u \in Threads, u # t PROVE ClaimOf(u)'
    <3>1. /\ pc'[u] = pc[u] /\ len'[u] = len[u] /\ count'[u] = count[u]
          /\ flen'[u] = flen[u] /\ written'[u] = written[u]
      BY <1>1, <2>1, <2>2 DEF ReturnLen, Goto, CallsType
    <3>2. level'[PortOf[u]] <= level[PortOf[u]] /\ pc[u] # "wait"
      BY <1>1, <1>4, <1>5, <2>1, <2>2, <2>6 DEF InParser, OneWriter
    <3>. QED
      BY <1>1, <1>2, <3>1, <3>2, ClaimKept
  <2>3. /\ len'[t] \in {0, len[t] - j} /\ count'[t] = count[t]
        /\ pc'[t] \in {"check", "idle"} /\ (pc'[t] = "check" => len'[t] = len[t] - j)
    BY <1>1, <2>2 DEF ReturnLen, Goto, CallsType
  <2>4. Claim(t)' \in {0, len[t] - j}
    BY <2>3 DEF Claim
  <2>5. level'[PortOf[t]] = level[PortOf[t]] + j
    BY <1>1, <2>2, <2>6
  <2>7. Kind[PortOf[t]] # "sub" => level[PortOf[t]] + len[t] <= Usable(PortOf[t])
    BY <1>2, <2>6 DEF ClaimOf, Claim
  <2>8. Kind[PortOf[t]] # "sub" => level'[PortOf[t]] + Claim(t)' <= Usable(PortOf[t])
    BY <1>1, <1>5, <2>2, <2>4, <2>5, <2>6, <2>7
  <2>9. len'[t] <= count'[t]
    BY <1>2, <1>5, <2>2, <2>3, <2>6 DEF ClaimOf
  <2>10. ClaimOf(t)'
    BY <2>3, <2>8, <2>9 DEF ClaimOf
  <2>. QED
    BY <1>3, <2>1, <2>10
<1>21. ASSUME NEW t \in Threads, FetchFault(t)
      PROVE  Claimed'
  <2>. DEFINE p == PortOf[t]
  <2>1. ASSUME NEW u \in Threads, u # t PROVE ClaimOf(u)'
    <3>1. /\ pc'[u] = pc[u] /\ len'[u] = len[u] /\ count'[u] = count[u]
          /\ flen'[u] = flen[u] /\ written'[u] = written[u]
      BY <1>1, <2>1, <1>21 DEF FetchFault, ReturnErr, GiveUp, Goto, CallsType
    <3>2. level'[PortOf[u]] <= level[PortOf[u]] /\ (pc[u] = "wait" => hleft' = hleft)
      BY <1>5, <1>21 DEF FetchFault, rings
    <3>. QED
      BY <1>1, <1>2, <3>1, <3>2, ClaimKept
  <2>2. /\ pc[t] = "program" /\ pc'[t] = "idle"
        /\ len'[t] = 0 /\ count'[t] = count[t] /\ level'[p] = level[p]
    BY <1>1, <1>21 DEF FetchFault, ReturnErr, GiveUp, Goto, CallsType, RingsType, rings
  <2>3. Claim(t)' = 0
    BY <2>2 DEF Claim
  <2>4. Kind[p] # "sub" => level[PortOf[t]] + (0) <= Usable(p)
    BY <1>1, <1>2, <1>5, <1>6, <2>2 DEF ClaimOf, Claim, Fits
  <2>5. ClaimOf(t)'
    BY <1>2, <1>5, <2>2, <2>3, <2>4 DEF ClaimOf
  <2>. QED
    BY <1>3, <2>1, <2>5
<1>22. ASSUME NEW t \in Threads, Program(t)
      PROVE  Claimed'
  <2>. DEFINE p == PortOf[t]
  <2>1. ASSUME NEW u \in Threads, u # t PROVE ClaimOf(u)'
    <3>1. /\ pc'[u] = pc[u] /\ len'[u] = len[u] /\ count'[u] = count[u]
          /\ flen'[u] = flen[u] /\ written'[u] = written[u]
      BY <1>1, <2>1, <1>22 DEF Program, Goto, CallsType
    <3>2. level'[PortOf[u]] <= level[PortOf[u]] /\ (pc[u] = "wait" => hleft' = hleft)
      BY <1>4, <1>5, <1>22 DEF Program, rings, InParser
    <3>. QED
      BY <1>1, <1>2, <3>1, <3>2, ClaimKept
  <2>2. /\ pc[t] = "program" /\ pc'[t] = "start"
        /\ len'[t] = len[t] /\ count'[t] = count[t] /\ level'[p] = level[p]
    BY <1>1, <1>22 DEF Program, Goto, CallsType, RingsType, rings
  <2>3. Claim(t)' = len[t]
    BY <2>2 DEF Claim
  <2>4. Kind[p] # "sub" => level[PortOf[t]] + (len[t]) <= Usable(p)
    BY <1>1, <1>2, <1>5, <1>6, <2>2 DEF ClaimOf, Claim, Fits
  <2>5. ClaimOf(t)'
    BY <1>2, <1>5, <2>2, <2>3, <2>4 DEF ClaimOf
  <2>. QED
    BY <1>3, <2>1, <2>5
<1>23. ASSUME NEW t \in Threads, Start(t)
      PROVE  Claimed'
  <2>. DEFINE p == PortOf[t]
  <2>1. ASSUME NEW u \in Threads, u # t PROVE ClaimOf(u)'
    <3>1. /\ pc'[u] = pc[u] /\ len'[u] = len[u] /\ count'[u] = count[u]
          /\ flen'[u] = flen[u] /\ written'[u] = written[u]
      BY <1>1, <2>1, <1>23 DEF Start, Goto, CallsType
    <3>2. level'[PortOf[u]] <= level[PortOf[u]] /\ (pc[u] = "wait" => hleft' = hleft)
      BY <1>4, <1>5, <1>23 DEF Start, rings, InParser
    <3>. QED
      BY <1>1, <1>2, <3>1, <3>2, ClaimKept
  <2>2. /\ pc[t] = "start" /\ pc'[t] = "wait"
        /\ len'[t] = len[t] /\ count'[t] = count[t] /\ level'[p] = level[p]
        /\ flen'[t] = flen[t] /\ hleft' = flen[t]
    BY <1>1, <1>23 DEF Start, Goto, CallsType, RingsType, rings
  <2>3. Claim(t)' = len[t] - flen[t] + flen[t]
    BY <2>2 DEF Claim
  <2>4. Kind[p] # "sub" => level[PortOf[t]] + (len[t] - flen[t] + flen[t]) <= Usable(p)
    BY <1>1, <1>2, <1>5, <1>6, <2>2 DEF ClaimOf, Claim, Fits
  <2>5. ClaimOf(t)'
    BY <1>2, <1>5, <2>2, <2>3, <2>4 DEF ClaimOf
  <2>. QED
    BY <1>3, <2>1, <2>5
<1>24. ASSUME NEW t \in Threads, Done(t)
      PROVE  Claimed'
  <2>2. ReturnLen(t, flen[t])
    BY <1>24 DEF Done
  <2>6. pc[t] = "wait" /\ flen[t] <= len[t]
    BY <1>24 DEF Done, Places
  <2>1. ASSUME NEW u \in Threads, u # t PROVE ClaimOf(u)'
    <3>1. /\ pc'[u] = pc[u] /\ len'[u] = len[u] /\ count'[u] = count[u]
          /\ flen'[u] = flen[u] /\ written'[u] = written[u]
      BY <1>1, <2>1, <1>24 DEF Done, ReturnLen, Goto, CallsType
    <3>2. level'[PortOf[u]] <= level[PortOf[u]] /\ pc[u] # "wait"
      BY <1>4, <1>5, <2>1, <2>6, <1>24 DEF Done, InParser
    <3>. QED
      BY <1>1, <1>2, <3>1, <3>2, ClaimKept
  <2>3. /\ len'[t] \in {0, len[t] - flen[t]} /\ count'[t] = count[t]
        /\ pc'[t] \in {"check", "idle"} /\ (pc'[t] = "check" => len'[t] = len[t] - flen[t])
    BY <1>1, <2>2 DEF ReturnLen, Goto, CallsType
  <2>4. Claim(t)' \in {0, len[t] - flen[t]}
    BY <2>3 DEF Claim
  <2>5. level' = level
    BY <1>24 DEF Done
  <2>7. Kind[PortOf[t]] # "sub"
          => level[PortOf[t]] + (len[t] - flen[t]) <= Usable(PortOf[t])
    BY <1>1, <1>2, <1>5, <2>6 DEF ClaimOf, Claim
  <2>8. Kind[PortOf[t]] # "sub" => level'[PortOf[t]] + Claim(t)' <= Usable(PortOf[t])
    BY <1>1, <1>5, <2>4, <2>5, <2>6, <2>7
  <2>9. len'[t] <= count'[t]
    BY <1>2, <1>5, <2>3, <2>6 DEF ClaimOf
  <2>10. ClaimOf(t)'
    BY <2>3, <2>8, <2>9 DEF ClaimOf
  <2>. QED
    BY <1>3, <2>1, <2>10
<1>25. ASSUME NEW t \in Threads, Expire(t)
      PROVE  Claimed'
  <2>6. pc[t] = "wait" /\ flen[t] <= len[t]
    BY <1>25 DEF Expire, TimesOut, Places
  <2>1. ASSUME NEW u \in Threads, u # t PROVE ClaimOf(u)'
    <3>1. /\ pc'[u] = pc[u] /\ len'[u] = len[u] /\ count'[u] = count[u]
          /\ flen'[u] = flen[u] /\ written'[u] = written[u]
      BY <1>1, <2>1, <1>25 DEF Expire, ReturnLen, ReturnErr, GiveUp, Goto, CallsType
    <3>2. level'[PortOf[u]] <= level[PortOf[u]] /\ pc[u] # "wait"
      BY <1>4, <1>5, <2>1, <2>6, <1>25 DEF Expire, InParser
    <3>. QED
      BY <1>1, <1>2, <3>1, <3>2, ClaimKept
  <2>2. ReturnLen(t, flen[t]) \/ ReturnErr(t, "EAGAIN")
    BY <1>25 DEF Expire
  <2>3. /\ len'[t] \in {0, len[t] - flen[t]} /\ count'[t] = count[t]
        /\ pc'[t] \in {"check", "idle"}
        /\ pc'[t] = "check" => len'[t] = len[t] - flen[t]
    <3>1. CASE ReturnLen(t, flen[t])
      BY <1>1, <3>1 DEF ReturnLen, Goto, CallsType
    <3>2. CASE ReturnErr(t, "EAGAIN")
      BY <1>1, <3>2 DEF ReturnErr, GiveUp, Goto, CallsType
    <3>. QED
      BY <2>2, <3>1, <3>2
  <2>4. Claim(t)' \in {0, len[t] - flen[t]}
    BY <2>3 DEF Claim
  <2>5. level' = level
    BY <1>25 DEF Expire
  <2>7. Kind[PortOf[t]] # "sub"
          => level[PortOf[t]] + (len[t] - flen[t]) <= Usable(PortOf[t])
    BY <1>1, <1>2, <1>5, <2>6 DEF ClaimOf, Claim
  <2>8. Kind[PortOf[t]] # "sub" => level'[PortOf[t]] + Claim(t)' <= Usable(PortOf[t])
    BY <1>1, <1>5, <2>4, <2>5, <2>6, <2>7
  <2>9. len'[t] <= count'[t]
    BY <1>2, <1>5, <2>3, <2>6 DEF ClaimOf
  <2>10. ClaimOf(t)'
    BY <2>3, <2>8, <2>9 DEF ClaimOf
  <2>. QED
    BY <1>3, <2>1, <2>10
<1>26. ASSUME NEW t \in Threads, Interrupted(t)
      PROVE  Claimed'
  BY <1>26 DEF Interrupted, Quiet
<1>27. ASSUME Move
      PROVE  Claimed'
  <2>1. PICK k \in 1..hleft :
           /\ hleft' = hleft - k
           /\ level' = IF Kind[hport] = "sub" THEN level
                       ELSE [level EXCEPT ![hport] = @ + k]
    BY <1>27 DEF Move
  <2>2. UNCHANGED calls
    BY <1>27 DEF Move
  <2>3. PICK t \in Threads : Waits(t)
    BY <1>27 DEF Move, Owned
  <2>4. k \in Nat /\ hport = PortOf[t] /\ pc[t] = "wait" /\ level \in [Ports -> Nat]
    BY <1>1, <2>1, <2>3 DEF Waits, RingsType
  <2>5. ASSUME NEW u \in Threads, u # t PROVE ClaimOf(u)'
    <3>1. level'[PortOf[u]] = level[PortOf[u]]
      BY <1>1, <2>1, <2>4, <2>5 DEF OneWriter
    <3>2. pc[u] # "wait"
      BY <1>4, <2>4, <2>5 DEF InParser
    <3>. QED
      BY <1>1, <1>2, <1>5, <2>2, <3>1, <3>2, ClaimKept
  <2>6. ClaimOf(t)'
    <3>1. Claim(t) = len[t] - flen[t] + hleft
          /\ Claim(t)' = len[t] - flen[t] + hleft'
      BY <2>2, <2>4 DEF Claim
    <3>2. Kind[PortOf[t]] # "sub" => level'[PortOf[t]] = level[PortOf[t]] + k
      BY <1>1, <2>1, <2>4
    <3>3. Kind[PortOf[t]] # "sub"
            => level'[PortOf[t]] + Claim(t)' = level[PortOf[t]] + Claim(t)
      BY <1>1, <1>5, <2>1, <2>4, <3>1, <3>2
    <3>. QED
      BY <1>2, <2>2, <2>4, <3>3 DEF ClaimOf
  <2>. QED
    BY <1>3, <2>5, <2>6
<1>28. ASSUME Found
      PROVE  Claimed'
  <2>1. /\ UNCHANGED calls /\ \A t \in Threads : pc[t] = "wait" => hleft' = hleft
    BY <1>28 DEF Found
  <2>2. \A t \in Threads : level'[PortOf[t]] <= level[PortOf[t]]
    BY <1>5, <1>28 DEF Found, rings
  <2>3. \A t \in Threads : ClaimOf(t)'
    BY <1>1, <1>2, <2>1, <2>2, ClaimKept
  <2>. QED
    BY <1>3, <2>3
<1>29. ASSUME esparser_isr
      PROVE  Claimed'
  <2>1. /\ UNCHANGED calls /\ \A t \in Threads : pc[t] = "wait" => hleft' = hleft
    BY <1>29 DEF esparser_isr
  <2>2. \A t \in Threads : level'[PortOf[t]] <= level[PortOf[t]]
    BY <1>5, <1>29 DEF esparser_isr, rings
  <2>3. \A t \in Threads : ClaimOf(t)'
    BY <1>1, <1>2, <2>1, <2>2, ClaimKept
  <2>. QED
    BY <1>3, <2>3
<1>30. ASSUME UNCHANGED vars
      PROVE  Claimed'
  <2>1. /\ UNCHANGED calls /\ \A t \in Threads : pc[t] = "wait" => hleft' = hleft
    BY <1>30
  <2>2. \A t \in Threads : level'[PortOf[t]] <= level[PortOf[t]]
    BY <1>5, <1>30 DEF rings
  <2>3. \A t \in Threads : ClaimOf(t)'
    BY <1>1, <1>2, <2>1, <2>2, ClaimKept
  <2>. QED
    BY <1>3, <2>3
<1>. QED
  BY <1>7, <1>8, <1>9, <1>10, <1>11, <1>12, <1>13, <1>14, <1>15, <1>16,
     <1>17, <1>18, <1>19, <1>20, <1>21, <1>22, <1>23, <1>24, <1>25, <1>26,
     <1>27, <1>28, <1>29, <1>30 DEF Next, ThreadStep

-----------------------------------------------------------------------------
(* The stream position *)

\* A call counts what it fetched, or nothing was fetched.
LEMMA CountedStep ==
  ASSUME Quiet, ~Stalls
  PROVE  /\ TypeOK /\ TypeOK' /\ Uses /\ Places /\ Owned /\ Timely
         /\ Counted /\ [Next]_vars
         => Counted'
<1> SUFFICES ASSUME TypeOK, TypeOK', Uses, Places, Owned, Timely, Counted,
                    [Next]_vars
             PROVE  Counted'
  OBVIOUS
<1>. USE DEF vars, calls, life
<1>1. /\ CallsType /\ RingsType /\ RingsType' /\ PortOf \in [Threads -> Ports]
  BY EsParserAssumption DEF TypeOK
<1>2. \A t, u \in Threads : InParser(t) /\ InParser(u) => t = u
  BY DEF Places
<1>3. ASSUME UNCHANGED <<parsed, fetched>>,
             \A t \in Threads : (pc'[t] = "wait" <=> pc[t] = "wait")
                                /\ (pc[t] = "wait" => wp'[t] = wp[t])
      PROVE  Counted'
  BY <1>3 DEF Counted
<1>4. ASSUME NEW p \in Ports, Open(p)
      PROVE  Counted'
  <2>1. /\ \A q \in Ports : q # p => parsed'[q] = parsed[q] /\ fetched'[q] = fetched[q]
        /\ parsed'[p] = 0 /\ fetched'[p] = 0
    BY <1>1, <1>4 DEF Open, RingsType
  <2>2. \A t \in Threads : pc[t] # "idle" => PortOf[t] # p
    BY <1>4 DEF Open, Uses
  <2>3. UNCHANGED <<pc, wp>>
    BY <1>4 DEF Open
  <2>. QED
    BY <1>1, <2>1, <2>2, <2>3 DEF Counted
<1>5. ASSUME NEW p \in Ports, OpenFail(p)
      PROVE  Counted'
  <2>1. UNCHANGED <<parsed, fetched>>
    BY <1>5 DEF OpenFail, rings
  <2>2. \A u \in Threads : (pc'[u] = "wait" <=> pc[u] = "wait")
                           /\ (pc[u] = "wait" => wp'[u] = wp[u])
    BY <1>1, <1>5 DEF OpenFail, CallsType
  <2>. QED
    BY <1>3, <2>1, <2>2
<1>6. ASSUME NEW p \in Ports, Close(p)
      PROVE  Counted'
  <2>1. UNCHANGED <<parsed, fetched>>
    BY <1>6 DEF Close, rings
  <2>2. \A u \in Threads : (pc'[u] = "wait" <=> pc[u] = "wait")
                           /\ (pc[u] = "wait" => wp'[u] = wp[u])
    BY <1>1, <1>6 DEF Close, CallsType
  <2>. QED
    BY <1>3, <2>1, <2>2
<1>7. ASSUME NEW p \in Ports, Consume(p)
      PROVE  Counted'
  <2>1. UNCHANGED <<parsed, fetched>>
    BY <1>7 DEF Consume, rings
  <2>2. \A u \in Threads : (pc'[u] = "wait" <=> pc[u] = "wait")
                           /\ (pc[u] = "wait" => wp'[u] = wp[u])
    BY <1>1, <1>7 DEF Consume, CallsType
  <2>. QED
    BY <1>3, <2>1, <2>2
<1>8. ASSUME NEW t \in Threads, NEW n \in Counts, Begin(t, n)
      PROVE  Counted'
  <2>1. UNCHANGED <<parsed, fetched>>
    BY <1>8 DEF Begin, rings
  <2>2. \A u \in Threads : (pc'[u] = "wait" <=> pc[u] = "wait")
                           /\ (pc[u] = "wait" => wp'[u] = wp[u])
    BY <1>1, <1>8 DEF Begin, Goto, CallsType
  <2>. QED
    BY <1>3, <2>1, <2>2
<1>9. ASSUME NEW t \in Threads, CheckFits(t)
      PROVE  Counted'
  <2>1. UNCHANGED <<parsed, fetched>>
    BY <1>9 DEF CheckFits, rings
  <2>2. \A u \in Threads : (pc'[u] = "wait" <=> pc[u] = "wait")
                           /\ (pc[u] = "wait" => wp'[u] = wp[u])
    BY <1>1, <1>9 DEF CheckFits, Goto, CallsType
  <2>. QED
    BY <1>3, <2>1, <2>2
<1>10. ASSUME NEW t \in Threads, CheckShort(t)
      PROVE  Counted'
  <2>1. UNCHANGED <<parsed, fetched>>
    BY <1>10 DEF CheckShort, rings
  <2>2. \A u \in Threads : (pc'[u] = "wait" <=> pc[u] = "wait")
                           /\ (pc[u] = "wait" => wp'[u] = wp[u])
    BY <1>1, <1>10 DEF CheckShort, Fits, Goto, CallsType
  <2>. QED
    BY <1>3, <2>1, <2>2
<1>11. ASSUME NEW t \in Threads, TakeSpace(t)
      PROVE  Counted'
  <2>1. UNCHANGED <<parsed, fetched>>
    BY <1>11 DEF TakeSpace, rings
  <2>2. \A u \in Threads : (pc'[u] = "wait" <=> pc[u] = "wait")
                           /\ (pc[u] = "wait" => wp'[u] = wp[u])
    BY <1>1, <1>11 DEF TakeSpace, Goto, CallsType
  <2>. QED
    BY <1>3, <2>1, <2>2
<1>12. ASSUME NEW t \in Threads, TooShort(t)
      PROVE  Counted'
  <2>1. UNCHANGED <<parsed, fetched>>
    BY <1>12 DEF TooShort, rings
  <2>2. \A u \in Threads : (pc'[u] = "wait" <=> pc[u] = "wait")
                           /\ (pc[u] = "wait" => wp'[u] = wp[u])
    BY <1>1, <1>12 DEF TooShort, GiveUp, Goto, CallsType
  <2>. QED
    BY <1>3, <2>1, <2>2
<1>13. ASSUME NEW t \in Threads, TakePart(t)
      PROVE  Counted'
  <2>1. UNCHANGED <<parsed, fetched>>
    BY <1>13 DEF TakePart, rings
  <2>2. \A u \in Threads : (pc'[u] = "wait" <=> pc[u] = "wait")
                           /\ (pc[u] = "wait" => wp'[u] = wp[u])
    BY <1>1, <1>13 DEF TakePart, Goto, CallsType
  <2>. QED
    BY <1>3, <2>1, <2>2
<1>14. ASSUME NEW t \in Threads, SpaceFound(t)
      PROVE  Counted'
  <2>1. UNCHANGED <<parsed, fetched>>
    BY <1>14 DEF SpaceFound, rings
  <2>2. \A u \in Threads : (pc'[u] = "wait" <=> pc[u] = "wait")
                           /\ (pc[u] = "wait" => wp'[u] = wp[u])
    BY <1>1, <1>14 DEF SpaceFound, Goto, CallsType
  <2>. QED
    BY <1>3, <2>1, <2>2
<1>15. ASSUME NEW t \in Threads, SpaceTimeout(t)
      PROVE  Counted'
  <2>1. UNCHANGED <<parsed, fetched>>
    BY <1>15 DEF SpaceTimeout, rings
  <2>2. \A u \in Threads : (pc'[u] = "wait" <=> pc[u] = "wait")
                           /\ (pc[u] = "wait" => wp'[u] = wp[u])
    BY <1>1, <1>15 DEF SpaceTimeout, GiveUp, Goto, CallsType
  <2>. QED
    BY <1>3, <2>1, <2>2
<1>16. ASSUME NEW t \in Threads, Lock(t)
      PROVE  Counted'
  <2>1. UNCHANGED <<parsed, fetched>>
    BY <1>16 DEF Lock, rings
  <2>2. \A u \in Threads : (pc'[u] = "wait" <=> pc[u] = "wait")
                           /\ (pc[u] = "wait" => wp'[u] = wp[u])
    BY <1>1, <1>16 DEF Lock, Goto, CallsType
  <2>. QED
    BY <1>3, <2>1, <2>2
<1>17. ASSUME NEW t \in Threads, AudioCopy(t)
      PROVE  Counted'
  <2>. DEFINE p == PortOf[t]
  <2>1. PICK j \in 0..len[t] :
           /\ fetched' = [fetched EXCEPT ![p] = @ + j]
           /\ parsed' = [parsed EXCEPT ![p] = @ + j]
           /\ ReturnLen(t, j)
    BY <1>17 DEF AudioCopy
  <2>2. /\ \A q \in Ports : q # p => parsed'[q] = parsed[q] /\ fetched'[q] = fetched[q]
        /\ parsed'[p] = parsed[p] + j /\ fetched'[p] = fetched[p] + j
    BY <1>1, <2>1 DEF RingsType
  <2>3. \A u \in Threads : pc[u] # "wait" /\ pc'[u] # "wait"
    BY <1>1, <1>2, <2>1, <1>17 DEF AudioCopy, ReturnLen, Goto, InParser, CallsType
  <2>. QED
    BY <1>1, <2>2, <2>3 DEF Counted
<1>18. ASSUME NEW t \in Threads, FetchFault(t)
      PROVE  Counted'
  <2>1. UNCHANGED <<parsed, fetched>>
    BY <1>18 DEF FetchFault, rings
  <2>2. \A u \in Threads : (pc'[u] = "wait" <=> pc[u] = "wait")
                           /\ (pc[u] = "wait" => wp'[u] = wp[u])
    BY <1>1, <1>18 DEF FetchFault, ReturnErr, GiveUp, Goto, CallsType
  <2>. QED
    BY <1>3, <2>1, <2>2
<1>19. ASSUME NEW t \in Threads, Program(t)
      PROVE  Counted'
  <2>1. UNCHANGED <<parsed, fetched>>
    BY <1>19 DEF Program, rings
  <2>2. \A u \in Threads : (pc'[u] = "wait" <=> pc[u] = "wait")
                           /\ (pc[u] = "wait" => wp'[u] = wp[u])
    BY <1>1, <1>2, <1>19 DEF Program, Goto, InParser, CallsType
  <2>. QED
    BY <1>3, <2>1, <2>2
<1>20. ASSUME NEW t \in Threads, Start(t)
      PROVE  Counted'
  <2>. DEFINE p == PortOf[t]
  <2>1. UNCHANGED <<parsed, fetched, wp>>
    BY <1>20 DEF Start, rings
  <2>2. \A u \in Threads : pc[u] # "wait" /\ (pc'[u] = "wait" => u = t)
    BY <1>1, <1>2, <1>20 DEF Start, Goto, InParser, CallsType
  <2>3. fetched[p] = wp[t]
    BY <1>20 DEF Start, Timely
  <2>4. Kind[p] # "sub" => parsed[p] = wp[t]
    BY <1>1, <2>2, <2>3 DEF Counted
  <2>. QED
    BY <1>1, <2>1, <2>2, <2>4 DEF Counted
<1>21. ASSUME NEW t \in Threads, Done(t)
      PROVE  Counted'
  <2>. DEFINE p == PortOf[t]
  <2>1. /\ pc[t] = "wait" /\ UNCHANGED fetched
        /\ \A q \in Ports : q # p => parsed'[q] = parsed[q]
        /\ Kind[p] # "sub" => parsed'[p] = parsed[p] + flen[t]
    BY <1>1, <1>21 DEF Done, CountParsed, RingsType
  <2>2. \A u \in Threads : (pc[u] = "wait" => u = t) /\ pc'[u] # "wait"
    BY <1>1, <1>2, <1>21 DEF Done, ReturnLen, Goto, InParser, CallsType
  <2>3. hleft = 0 /\ fetched[p] + hleft = wp[t] + flen[t]
    BY <1>21 DEF Done, Owned, Timely
  <2>4. Kind[p] # "sub" => parsed[p] = wp[t]
    BY <2>1 DEF Counted
  <2>5. fetched[p] \in Nat /\ wp[t] \in Nat /\ flen[t] \in Nat
    BY <1>1 DEF RingsType, CallsType
  <2>6. Kind[p] # "sub" => parsed'[p] = fetched'[p]
    BY <2>1, <2>3, <2>4, <2>5
  <2>. QED
    BY <2>1, <2>2, <2>6 DEF Counted
<1>22. ASSUME NEW t \in Threads, Expire(t)
      PROVE  Counted'
  <2>. DEFINE p == PortOf[t]
  <2>1. pc[t] = "wait" /\ UNCHANGED fetched /\ ~search_done /\ ~irq
    BY <1>22 DEF Expire, TimesOut, Quiet
  <2>2. hw = "fetch" /\ hleft = flen[t]
    BY <2>1, <1>22 DEF Expire, TimesOut, Timely, TypeOK, ParserType
  <2>3. fetched[p] = wp[t]
    <3>1. fetched[p] + hleft = wp[t] + flen[t]
      BY <2>1 DEF Timely
    <3>. QED
      BY <1>1, <2>2, <3>1 DEF RingsType, CallsType
  <2>4. UNCHANGED parsed /\ ReturnErr(t, "EAGAIN")
    BY <1>22, <2>3 DEF Expire, Moved
  <2>5. \A u \in Threads : (pc[u] = "wait" => u = t) /\ pc'[u] # "wait"
    BY <1>1, <1>2, <2>1, <2>4 DEF ReturnErr, GiveUp, Goto, InParser, CallsType
  <2>6. Kind[p] # "sub" => parsed[p] = wp[t]
    BY <2>1 DEF Counted
  <2>. QED
    BY <2>1, <2>3, <2>4, <2>5, <2>6 DEF Counted
<1>23. ASSUME NEW t \in Threads, Interrupted(t)
      PROVE  Counted'
  BY <1>23 DEF Interrupted, Quiet
<1>24. ASSUME Move
      PROVE  Counted'
  <2>1. PICK k \in 1..hleft : fetched' = [fetched EXCEPT ![hport] = @ + k]
    BY <1>24 DEF Move
  <2>2. PICK t \in Threads : Waits(t)
    BY <1>24 DEF Move, Owned
  <2>3. UNCHANGED <<parsed, pc, wp>>
    BY <1>24 DEF Move
  <2>4. \A q \in Ports : q # PortOf[t] => fetched'[q] = fetched[q]
    BY <1>1, <2>1, <2>2 DEF Waits, RingsType
  <2>5. PortOf[t] = hport /\ pc[t] = "wait"
    BY <2>2 DEF Waits
  <2>. QED
    BY <2>3, <2>4, <2>5 DEF Counted
<1>25. ASSUME Found
      PROVE  Counted'
  <2>1. UNCHANGED <<parsed, fetched>>
    BY <1>25 DEF Found, rings
  <2>2. \A u \in Threads : (pc'[u] = "wait" <=> pc[u] = "wait")
                           /\ (pc[u] = "wait" => wp'[u] = wp[u])
    BY <1>1, <1>25 DEF Found, CallsType
  <2>. QED
    BY <1>3, <2>1, <2>2
<1>26. ASSUME esparser_isr
      PROVE  Counted'
  <2>1. UNCHANGED <<parsed, fetched>>
    BY <1>26 DEF esparser_isr, rings
  <2>2. \A u \in Threads : (pc'[u] = "wait" <=> pc[u] = "wait")
                           /\ (pc[u] = "wait" => wp'[u] = wp[u])
    BY <1>1, <1>26 DEF esparser_isr, CallsType
  <2>. QED
    BY <1>3, <2>1, <2>2
<1>27. ASSUME UNCHANGED vars
      PROVE  Counted'
  <2>1. UNCHANGED <<parsed, fetched>>
    BY <1>27 DEF rings
  <2>2. \A u \in Threads : (pc'[u] = "wait" <=> pc[u] = "wait")
                           /\ (pc[u] = "wait" => wp'[u] = wp[u])
    BY <1>1, <1>27 DEF CallsType
  <2>. QED
    BY <1>3, <2>1, <2>2
<1>. QED
  BY <1>4, <1>5, <1>6, <1>7, <1>8, <1>9, <1>10, <1>11, <1>12, <1>13,
     <1>14, <1>15, <1>16, <1>17, <1>18, <1>19, <1>20, <1>21, <1>22, <1>23,
     <1>24, <1>25, <1>26, <1>27 DEF Next, ThreadStep

-----------------------------------------------------------------------------
(* Theorems *)

\* Initially no port is open.
LEMMA InitTypes == Init => TypeOK /\ Uses /\ Places
<1> SUFFICES ASSUME Init PROVE TypeOK /\ Uses /\ Places
  OBVIOUS
<1>1. Uses
  BY FS_EmptySet DEF Init, Uses
<1>2. Places
  BY EsParserAssumption DEF Init, Places, InParser
<1>3. TypeOK
  BY DEF Init, TypeOK, ParserType, RingsType, CallsType
<1>. QED
  BY <1>1, <1>2, <1>3

Base == TypeOK /\ Uses /\ Places

\* Types, the use count and the mutex, whatever fails and however often.
THEOREM BaseInvariance == Spec => []Base
<1>1. Init => Base
  BY InitTypes DEF Base
<1>2. Base /\ [Next]_vars => Base'
  BY TypeStep, UsesStep, PlacesStep DEF Base
<1>. QED
  BY <1>1, <1>2, PTL DEF Spec

\* Every variable keeps its type: the use count never becomes negative.
THEOREM TypeCorrect == Spec => []TypeOK
<1>1. Base => TypeOK
  BY DEF Base
<1>. QED
  BY BaseInvariance, <1>1, PTL

\* esparser_isr() stays registered while any port is open, however many
\* esparser_init() fail in between.
THEOREM InterruptKeptAlways == Spec => []InterruptKept
<1>1. Base => InterruptKept
  BY FS_EmptySet DEF Base, Uses, InterruptKept
<1>. QED
  BY BaseInvariance, <1>1, PTL

\* Without signals and late interrupts a wait ends with its own fetch.
THEOREM DoneIsExactAlways ==
  ASSUME Quiet PROVE Spec => []DoneIsExact
<1>1. Init => Owned /\ Timely
  BY DEF Init, Owned, Timely
<1>2. Base /\ Base' /\ Owned /\ Timely /\ [Next]_vars => Owned' /\ Timely'
  BY FetchStep DEF Base
<1>3. Base /\ Owned /\ Timely => DoneIsExact
  <2> SUFFICES ASSUME Base, Owned, Timely, NEW t \in Threads, pc[t] = "wait"
               PROVE  /\ search_done <=> hw = "idle" /\ ~irq
                      /\ search_done => fetched[PortOf[t]] = wp[t] + flen[t]
    BY DEF DoneIsExact
  <2>1. fetched[PortOf[t]] \in Nat /\ wp[t] \in Nat /\ flen[t] \in Nat
    BY PortOfType DEF Base, TypeOK, RingsType, CallsType
  <2>2. fetched[PortOf[t]] + hleft = wp[t] + flen[t]
    BY DEF Timely
  <2>3. search_done <=> hw = "idle" /\ ~irq
    BY DEF Timely
  <2>4. search_done => hleft = 0
    BY <2>3 DEF Owned
  <2>. QED
    BY <2>1, <2>2, <2>3, <2>4
<1>. QED
  BY BaseInvariance, <1>1, <1>2, <1>3, PTL DEF Spec

\* What a thread claims is not negative, so its claim keeps its ring below
\* the reserve; a ring without a thread only loses bytes.
LEMMA ReserveStep ==
  TypeOK /\ TypeOK' /\ Places' /\ Owned /\ Claimed' /\ ReserveKept /\ [Next]_vars
  => ReserveKept'
<1> SUFFICES ASSUME TypeOK, TypeOK', Places', Owned, Claimed', ReserveKept,
                    [Next]_vars,
                    NEW p \in Ports, Kind[p] # "sub"
             PROVE  level'[p] <= Usable(p)
  BY DEF ReserveKept
<1>1. level \in [Ports -> Nat] /\ level' \in [Ports -> Nat] /\ Usable(p) \in Nat
  BY UsableType DEF TypeOK, RingsType
<1>2. level[p] <= Usable(p)
  BY DEF ReserveKept
<1>3. CASE \E t \in Threads : PortOf[t] = p
  <2>1. PICK t \in Threads : PortOf[t] = p
    BY <1>3
  <2>2. len'[t] \in Nat /\ flen'[t] \in Nat /\ hleft' \in Nat
    BY DEF TypeOK, ParserType, CallsType
  <2>3. pc'[t] = "wait" => flen'[t] <= len'[t]
    BY DEF Places
  <2>4. Claim(t)' \in Nat
    BY <2>2, <2>3 DEF Claim
  <2>5. level'[p] + Claim(t)' <= Usable(p)
    BY <2>1 DEF Claimed
  <2>. QED
    BY <1>1, <2>4, <2>5
<1>4. CASE ~ \E t \in Threads : PortOf[t] = p
  <2>1. CASE \E q \in Ports : Open(q)
    BY <1>1, <1>2, <2>1 DEF Open
  <2>2. CASE \E q \in Ports : Consume(q)
    <3>1. PICK q \in Ports : Consume(q)
      BY <2>2
    <3>2. PICK k \in 1..level[q] : level' = [level EXCEPT ![q] = @ - k]
      BY <3>1 DEF Consume
    <3>3. level'[p] <= level[p]
      BY <1>1, <3>2
    <3>. QED
      BY <1>1, <1>2, <3>3
  <2>3. CASE \E t \in Threads : AudioCopy(t)
    <3>1. level'[p] = level[p]
      BY <1>1, <1>4, <2>3 DEF AudioCopy
    <3>. QED
      BY <1>2, <3>1
  <2>4. CASE Move
    <3>1. hport # p
      BY <1>4, <2>4 DEF Move, Owned, Waits
    <3>2. level'[p] = level[p]
      BY <1>1, <2>4, <3>1 DEF Move
    <3>. QED
      BY <1>2, <3>2
  <2>5. CASE UNCHANGED level
    BY <1>2, <2>5
  <2>6. ASSUME NEW q \in Ports PROVE OpenFail(q) \/ Close(q) => UNCHANGED level
    BY DEF OpenFail, Close, rings
  <2>7. ASSUME NEW t \in Threads
        PROVE  ThreadStep(t) => AudioCopy(t) \/ UNCHANGED level
    BY DEF ThreadStep, rings, CheckFits, CheckShort, TakeSpace, TooShort, TakePart,
           SpaceFound, SpaceTimeout, Lock, FetchFault, Program, Start, Done,
           Expire, Interrupted
  <2>8. ASSUME NEW t \in Threads, NEW n \in Counts
        PROVE  Begin(t, n) => UNCHANGED level
    BY DEF Begin, rings
  <2>9. Found \/ esparser_isr \/ UNCHANGED vars => UNCHANGED level
    BY DEF Found, esparser_isr, rings, vars
  <2>. QED
    BY <2>1, <2>2, <2>3, <2>4, <2>5, <2>6, <2>7, <2>8, <2>9 DEF Next
<1>. QED
  BY <1>3, <1>4

\* What fits when a thread looks still fits when its data arrive, for rings of
\* every size, when a port has one writer: the reserved bytes stay free.
THEOREM ReserveKeptAlways ==
  ASSUME Quiet, OneWriter PROVE Spec => []ReserveKept
<1>. DEFINE Inv == Owned /\ Timely /\ Claimed /\ ReserveKept
<1>1. Init => Inv
  <2> SUFFICES ASSUME Init PROVE Inv
    OBVIOUS
  <2>1. Owned /\ Timely
    BY DEF Init, Owned, Timely
  <2>2. Claimed
    BY UsableType, PortOfType DEF Init, Claimed, Claim
  <2>3. ReserveKept
    BY UsableType DEF Init, ReserveKept
  <2>. QED
    BY <2>1, <2>2, <2>3
<1>2. Base /\ Base' /\ Inv /\ [Next]_vars => Inv'
  BY FetchStep, ClaimStep, ReserveStep DEF Base
<1>3. Inv => ReserveKept
  OBVIOUS
<1>. HIDE DEF Inv
<1>. QED
  BY BaseInvariance, <1>1, <1>2, <1>3, PTL DEF Spec

\* Whatever fails or times out, the counted bytes are the fetched ones when
\* fetches run to their end.
THEOREM ParsedIsFetchedAlways ==
  ASSUME Quiet, ~Stalls PROVE Spec => []ParsedIsFetched
<1>. DEFINE Inv == Owned /\ Timely /\ Counted
<1>1. Init => Inv
  BY DEF Init, Owned, Timely, Counted
<1>2. Base /\ Base' /\ Inv /\ [Next]_vars => Inv'
  BY FetchStep, CountedStep DEF Base
<1>3. Inv => ParsedIsFetched
  BY DEF Counted, ParsedIsFetched
<1>. HIDE DEF Inv
<1>. QED
  BY BaseInvariance, <1>1, <1>2, <1>3, PTL DEF Spec


-----------------------------------------------------------------------------
(* Audio: the place in the ring and the bytes of the stream *)

\* The parser never works for an audio port: whatever failed or was given up,
\* its registers point to the ring of the last call that programmed them.
NoAudioFetch ==
  hw = "fetch" \/ (\E t \in Threads : pc[t] = "start")
    => Kind[hport] # "audio"

\* No audio call copies more than a ring.
Bounded ==
  \A t \in Threads :
    /\ len[t] <= count[t]
    /\ Kind[PortOf[t]] = "audio"
         /\ pc[t] \in {"part", "space", "lock", "copy"}
       => len[t] <= Size[PortOf[t]]

\* Audio data are copied, and only a call for another port programs the parser.
LEMMA NoAudioFetchStep ==
  TypeOK /\ Places /\ NoAudioFetch /\ [Next]_vars => NoAudioFetch'
<1> SUFFICES ASSUME TypeOK, Places, NoAudioFetch, [Next]_vars
             PROVE  NoAudioFetch'
  OBVIOUS
<1>. USE DEF NoAudioFetch
<1>1. pc \in [Threads -> {"idle", "check", "short", "part", "space", "lock",
                          "copy", "program", "start", "wait"}]
  BY DEF TypeOK, CallsType
<1>2. ASSUME NEW t \in Threads, Program(t)
      PROVE  NoAudioFetch'
  <2>1. Kind[PortOf[t]] # "audio"
    BY <1>2 DEF Program, Places
  <2>. QED
    BY <1>2, <2>1 DEF Program
<1>3. ASSUME NEW t \in Threads, Start(t)
      PROVE  NoAudioFetch'
  BY <1>3 DEF Start
<1>4. ASSUME hport' = hport, hw' # "fetch" \/ hw' = hw,
             \A t \in Threads : pc'[t] = "start" => pc[t] = "start"
      PROVE  NoAudioFetch'
  BY <1>4
<1>5. ASSUME \E p \in Ports : Open(p) \/ OpenFail(p) \/ Close(p) \/ Consume(p)
      PROVE  NoAudioFetch'
  <2>1. pc' = pc /\ hport' = hport /\ (hw' # "fetch" \/ hw' = hw)
    BY <1>5 DEF Open, OpenFail, Close, Consume, ResetParser, calls, parser
  <2>. QED
    BY <1>4, <2>1
<1>6. ASSUME Move \/ Found \/ esparser_isr \/ UNCHANGED vars
      PROVE  NoAudioFetch'
  <2>1. pc' = pc /\ hport' = hport /\ (hw' # "fetch" \/ hw' = hw)
    BY <1>6 DEF Move, Found, esparser_isr, vars, calls, parser
  <2>. QED
    BY <1>4, <2>1
<1>7. ASSUME NEW t \in Threads, NEW l, l # "start", Goto(t, l),
             UNCHANGED hport, hw' # "fetch" \/ hw' = hw
      PROVE  NoAudioFetch'
  <2>1. \A u \in Threads : pc'[u] = "start" => pc[u] = "start"
    BY <1>1, <1>7 DEF Goto
  <2>. QED
    BY <1>4, <1>7, <2>1
<1>8. ASSUME NEW t \in Threads,
             \/ (\E n \in Counts : Begin(t, n)) \/ CheckFits(t)
             \/ TakeSpace(t) \/ TooShort(t)
      PROVE  NoAudioFetch'
  <2>1. UNCHANGED hport /\ UNCHANGED hw
    BY <1>8 DEF Begin, CheckFits, TakeSpace, TooShort, parser
  <2>2. Goto(t, "check") \/ Goto(t, "lock") \/ Goto(t, "idle")
    BY <1>8 DEF Begin, CheckFits, TakeSpace, TooShort, GiveUp
  <2>. QED
    BY <1>7, <2>1, <2>2
<1>9. ASSUME NEW t \in Threads,
             \/ CheckShort(t) \/ TakePart(t) \/ SpaceFound(t)
             \/ SpaceTimeout(t) \/ Lock(t)
      PROVE  NoAudioFetch'
  <2>1. UNCHANGED hport /\ UNCHANGED hw
    BY <1>9 DEF CheckShort, TakePart, SpaceFound, SpaceTimeout, Lock, parser
  <2>2. \/ Goto(t, "short") \/ Goto(t, "part") \/ Goto(t, "lock")
        \/ Goto(t, "space") \/ Goto(t, "check") \/ Goto(t, "idle")
        \/ Goto(t, "copy") \/ Goto(t, "program")
    BY <1>9 DEF CheckShort, TakePart, SpaceFound, SpaceTimeout, Lock, GiveUp
  <2>. QED
    BY <1>7, <2>1, <2>2
<1>10. ASSUME NEW t \in Threads,
              \/ AudioCopy(t) \/ FetchFault(t) \/ Done(t) \/ Expire(t)
              \/ Interrupted(t)
       PROVE  NoAudioFetch'
  <2>1. UNCHANGED hport /\ (hw' # "fetch" \/ hw' = hw)
    BY <1>10 DEF AudioCopy, FetchFault, Done, Expire, TimesOut, Interrupted,
                 parser
  <2>2. Goto(t, "check") \/ Goto(t, "idle")
    BY <1>10 DEF AudioCopy, FetchFault, Done, Expire, Interrupted,
                 ReturnLen, ReturnErr, GiveUp
  <2>. QED
    BY <1>7, <2>1, <2>2
<1>. QED
  BY <1>2, <1>3, <1>5, <1>6, <1>8, <1>9, <1>10 DEF Next, ThreadStep

\* A length was measured against the ring, or cut to a part of it.
LEMMA BoundedStep ==
  TypeOK /\ Places /\ Bounded /\ [Next]_vars => Bounded'
<1> SUFFICES ASSUME TypeOK, Places, Bounded, [Next]_vars
             PROVE  Bounded'
  OBVIOUS
<1>1. /\ pc \in [Threads -> {"idle", "check", "short", "part", "space",
                             "lock", "copy", "program", "start", "wait"}]
      /\ count \in [Threads -> Nat] /\ len \in [Threads -> Nat]
      /\ flen \in [Threads -> Nat] /\ level \in [Ports -> Nat]
      /\ PortOf \in [Threads -> Ports]
  BY EsParserAssumption DEF TypeOK, CallsType, RingsType
<1> DEFINE Stays(u) == /\ len[u] <= count[u]
                       /\ Kind[PortOf[u]] = "audio"
                            /\ pc[u] \in {"part", "space", "lock", "copy"}
                          => len[u] <= Size[PortOf[u]]
           StaysNew(u) == /\ len'[u] <= count'[u]
                          /\ Kind[PortOf[u]] = "audio"
                               /\ pc'[u] \in {"part", "space", "lock", "copy"}
                             => len'[u] <= Size[PortOf[u]]
<1>2. \A u \in Threads : Stays(u)
  BY DEF Bounded
<1>3. SUFFICES \A u \in Threads : StaysNew(u)
  BY DEF Bounded
<1>4. \A p \in Ports : /\ Size[p] \in Nat /\ Usable(p) \in Nat
                       /\ Usable(p) <= Size[p] /\ CanUse[p] \in Nat
                       /\ CanUse[p] <= Size[p]
                       /\ CanUse[p] \div Fraction \in Nat
                       /\ CanUse[p] \div Fraction <= CanUse[p]
  <2>1. ASSUME NEW p \in Ports
        PROVE  /\ Size[p] \in Nat /\ CanUse[p] \in Nat /\ CanUse[p] <= Size[p]
               /\ Guard \in Nat /\ Fraction \in Nat \ {0}
    BY EsParserAssumption
  <2>2. ASSUME NEW p \in Ports
        PROVE  Usable(p) \in Nat /\ Usable(p) <= Size[p]
    BY <2>1 DEF Usable, Reserve
  <2>3. ASSUME NEW n \in Nat, NEW f \in Nat \ {0}
        PROVE  n \div f \in Nat /\ n \div f <= n
    <3>1. n * 1 = n /\ 1 \in Nat /\ 1 <= f
      OBVIOUS
    <3>2. (n * 1) \div f \in 0..n
      BY <3>1, DivisionBounds
    <3>. QED
      BY <3>1, <3>2
  <2>. QED
    BY <2>1, <2>2, <2>3
\* The other threads' calls are left alone.
<1>5. ASSUME NEW t \in Threads,
             \A u \in Threads \ {t} : /\ pc'[u] = pc[u] /\ len'[u] = len[u]
                                      /\ count'[u] = count[u],
             StaysNew(t)
      PROVE  \A u \in Threads : StaysNew(u)
  BY <1>2, <1>5
<1>6. ASSUME UNCHANGED <<pc, len, count>>
      PROVE  \A u \in Threads : StaysNew(u)
  BY <1>2, <1>6
<1>7. ASSUME NEW t \in Threads, NEW l, Goto(t, l), UNCHANGED <<len, count>>,
             \/ l \notin {"part", "space", "lock", "copy"}
             \/ pc[t] \in {"part", "space", "lock", "copy"}
             \/ Kind[PortOf[t]] # "audio"
             \/ len[t] <= Size[PortOf[t]]
      PROVE  \A u \in Threads : StaysNew(u)
  BY <1>1, <1>2, <1>7 DEF Goto
<1>8. ASSUME NEW t \in Threads, NEW n \in Nat, NEW l, Goto(t, l),
             len' = [len EXCEPT ![t] = n], UNCHANGED count,
             n <= count[t],
             \/ l \notin {"part", "space", "lock", "copy"}
             \/ n <= Size[PortOf[t]]
      PROVE  \A u \in Threads : StaysNew(u)
  BY <1>1, <1>2, <1>8 DEF Goto
<1> HIDE DEF Stays, StaysNew
<1>9. ASSUME \/ \E p \in Ports : Open(p) \/ OpenFail(p) \/ Close(p) \/ Consume(p)
             \/ Move \/ Found \/ esparser_isr \/ UNCHANGED vars
      PROVE  \A u \in Threads : StaysNew(u)
  <2>1. UNCHANGED <<pc, len, count>>
    BY <1>9 DEF Open, OpenFail, Close, Consume, Move, Found, esparser_isr,
                vars, calls
  <2>. QED
    BY <1>6, <2>1
<1>10. ASSUME NEW t \in Threads, NEW n \in Counts, Begin(t, n)
       PROVE  \A u \in Threads : StaysNew(u)
  <2>1. n \in Nat
    BY EsParserAssumption
  <2>2. /\ pc' = [pc EXCEPT ![t] = "check"] /\ len' = [len EXCEPT ![t] = n]
        /\ count' = [count EXCEPT ![t] = n]
    BY <1>10 DEF Begin, Goto
  <2>3. StaysNew(t)
    BY <1>1, <2>1, <2>2 DEF StaysNew
  <2>. QED
    BY <1>1, <1>5, <2>2, <2>3
<1>11. ASSUME NEW t \in Threads, CheckFits(t)
       PROVE  \A u \in Threads : StaysNew(u)
  <2>1. Goto(t, "lock") /\ UNCHANGED <<len, count>>
    BY <1>11 DEF CheckFits
  <2>2. Kind[PortOf[t]] # "audio" \/ len[t] <= Size[PortOf[t]]
    <3>1. Kind[PortOf[t]] = "audio" =>
            count[t] <= Usable(PortOf[t]) - level[PortOf[t]]
      BY <1>11 DEF CheckFits, Fits
    <3>2. len[t] <= count[t] /\ PortOf[t] \in Ports
      BY <1>1, <1>2 DEF Stays
    <3>3. /\ len[t] \in Nat /\ count[t] \in Nat /\ level[PortOf[t]] \in Nat
          /\ Usable(PortOf[t]) \in Nat /\ Size[PortOf[t]] \in Nat
          /\ Usable(PortOf[t]) <= Size[PortOf[t]]
      BY <1>1, <1>4
    <3>. QED
      BY <3>1, <3>2, <3>3
  <2>. QED
    BY <1>7, <2>1, <2>2
<1>12. ASSUME NEW t \in Threads, CheckShort(t)
       PROVE  \A u \in Threads : StaysNew(u)
  <2>1. CASE t \in NonBlock
    <3>1. Goto(t, "short") /\ UNCHANGED <<len, count>>
      BY <1>12, <2>1 DEF CheckShort
    <3>. QED
      BY <1>7, <3>1
  <2>2. CASE t \notin NonBlock
    <3> DEFINE c == CanUse[PortOf[t]] \div Fraction
               n == Lesser(c, len[t])
    <3>1. /\ Goto(t, "part") /\ UNCHANGED count
          /\ len' = [len EXCEPT ![t] = n]
      BY <1>12, <2>2 DEF CheckShort
    <3>2. /\ PortOf[t] \in Ports /\ len[t] \in Nat /\ count[t] \in Nat
          /\ len[t] <= count[t]
      BY <1>1, <1>2 DEF Stays
    <3>3. /\ c \in Nat /\ c <= Size[PortOf[t]] /\ Size[PortOf[t]] \in Nat
      BY <1>4, <3>2
    <3> HIDE DEF c
    <3>4. n \in Nat /\ n <= c /\ n <= len[t]
      BY <3>2, <3>3, LesserType
    <3> HIDE DEF n
    <3>5. n <= count[t] /\ n <= Size[PortOf[t]]
      BY <3>2, <3>3, <3>4
    <3>. QED
      BY <1>8, <3>1, <3>4, <3>5
  <2>. QED
    BY <2>1, <2>2
<1>13. ASSUME NEW t \in Threads, TakeSpace(t)
       PROVE  \A u \in Threads : StaysNew(u)
  <2> DEFINE c == Usable(PortOf[t]) - level[PortOf[t]]
             n == Lesser(c, count[t])
  <2>1. /\ Goto(t, "lock") /\ UNCHANGED count
        /\ len' = [len EXCEPT ![t] = n]
    BY <1>13 DEF TakeSpace
  <2>2. /\ PortOf[t] \in Ports /\ count[t] \in Nat
        /\ level[PortOf[t]] \in Nat /\ Usable(PortOf[t]) \in Nat
        /\ Usable(PortOf[t]) <= Size[PortOf[t]] /\ Size[PortOf[t]] \in Nat
    BY <1>1, <1>4
  <2>3. c \in Nat /\ c <= Size[PortOf[t]]
    <3>1. Kind[PortOf[t]] # "sub"
      BY <1>13 DEF TakeSpace, Places
    <3>2. MinWrite \in Nat /\ MinWrite <= Usable(PortOf[t]) - level[PortOf[t]]
      BY <1>13, <3>1, EsParserAssumption DEF TakeSpace, Fits
    <3>. QED
      BY <2>2, <3>2
  <2> HIDE DEF c
  <2>4. n \in Nat /\ n <= c /\ n <= count[t]
    BY <2>2, <2>3, LesserType
  <2> HIDE DEF n
  <2>5. n <= Size[PortOf[t]]
    BY <2>2, <2>3, <2>4
  <2>. QED
    BY <1>8, <2>1, <2>4, <2>5
<1>14. ASSUME NEW t \in Threads, GiveUp(t, "EAGAIN") \/ GiveUp(t, "EFAULT")
                \/ GiveUp(t, "ERESTARTSYS"), UNCHANGED count
       PROVE  \A u \in Threads : StaysNew(u)
  <2>1. Goto(t, "idle") /\ len' = [len EXCEPT ![t] = 0]
    BY <1>14 DEF GiveUp
  <2>2. 0 \in Nat /\ 0 <= count[t]
    BY <1>1
  <2>. QED
    BY <1>8, <1>14, <2>1, <2>2
<1>15. ASSUME NEW t \in Threads, TooShort(t)
       PROVE  \A u \in Threads : StaysNew(u)
  BY <1>14, <1>15 DEF TooShort
<1>16. ASSUME NEW t \in Threads, TakePart(t)
       PROVE  \A u \in Threads : StaysNew(u)
  <2>1. /\ Goto(t, "lock") \/ Goto(t, "space")
        /\ UNCHANGED <<len, count>> /\ pc[t] = "part"
    BY <1>16 DEF TakePart
  <2>. QED
    BY <1>7, <2>1
<1>17. ASSUME NEW t \in Threads, SpaceFound(t)
       PROVE  \A u \in Threads : StaysNew(u)
  <2>1. /\ Goto(t, "lock") \/ Goto(t, "check")
        /\ UNCHANGED <<len, count>> /\ pc[t] = "space"
    BY <1>17 DEF SpaceFound
  <2>. QED
    BY <1>7, <2>1
<1>18. ASSUME NEW t \in Threads, SpaceTimeout(t)
       PROVE  \A u \in Threads : StaysNew(u)
  <2>1. CASE t \in Drm /\ written[t] > 0
    <3>1. Goto(t, "lock") /\ UNCHANGED <<len, count>> /\ pc[t] = "space"
      BY <1>18, <2>1 DEF SpaceTimeout
    <3>. QED
      BY <1>7, <3>1
  <2>2. CASE ~(t \in Drm /\ written[t] > 0)
    BY <1>14, <1>18, <2>2 DEF SpaceTimeout
  <2>. QED
    BY <2>1, <2>2
<1>19. ASSUME NEW t \in Threads, Lock(t)
       PROVE  \A u \in Threads : StaysNew(u)
  <2>1. /\ Goto(t, "copy") \/ Goto(t, "program")
        /\ UNCHANGED <<len, count>> /\ pc[t] = "lock"
    BY <1>19 DEF Lock
  <2>. QED
    BY <1>7, <2>1
<1>20. ASSUME NEW t \in Threads, NEW n \in Nat, n <= len[t], ReturnLen(t, n)
       PROVE  \A u \in Threads : StaysNew(u)
  <2> DEFINE again == /\ t \in Drm
                      /\ written[t] + n # count[t] /\ len[t] > n
             m == IF again THEN len[t] - n ELSE 0
             l == IF again THEN "check" ELSE "idle"
  <2>1. Goto(t, l) /\ len' = [len EXCEPT ![t] = m] /\ UNCHANGED count
    BY <1>1, <1>20 DEF ReturnLen
  <2>2. len[t] \in Nat /\ count[t] \in Nat /\ len[t] <= count[t]
    BY <1>1, <1>2 DEF Stays
  <2>3. m \in Nat /\ m <= count[t] /\ l \notin {"part", "space", "lock", "copy"}
    BY <1>20, <2>2
  <2> HIDE DEF m, l
  <2>. QED
    BY <1>8, <2>1, <2>3
<1>21. ASSUME NEW t \in Threads, AudioCopy(t)
       PROVE  \A u \in Threads : StaysNew(u)
  <2>1. PICK j \in 0..len[t] : ReturnLen(t, j)
    BY <1>21 DEF AudioCopy
  <2>2. j \in Nat /\ j <= len[t]
    BY <1>1, <2>1
  <2>. QED
    BY <1>20, <2>1, <2>2
<1>22. ASSUME NEW t \in Threads, FetchFault(t) \/ Interrupted(t)
       PROVE  \A u \in Threads : StaysNew(u)
  BY <1>14, <1>22 DEF FetchFault, Interrupted, ReturnErr
<1>23. ASSUME NEW t \in Threads, Program(t) \/ Start(t)
       PROVE  \A u \in Threads : StaysNew(u)
  <2>1. (Goto(t, "start") \/ Goto(t, "wait")) /\ UNCHANGED <<len, count>>
    BY <1>23 DEF Program, Start
  <2>. QED
    BY <1>7, <2>1
<1>24. ASSUME NEW t \in Threads, Done(t) \/ Expire(t)
       PROVE  \A u \in Threads : StaysNew(u)
  <2>1. flen[t] \in Nat /\ flen[t] <= len[t]
    BY <1>1, <1>24 DEF Done, Expire, TimesOut, Places
  <2>2. ReturnLen(t, flen[t]) \/ ReturnErr(t, "EAGAIN")
    BY <1>24 DEF Done, Expire
  <2>. QED
    BY <1>14, <1>20, <2>1, <2>2 DEF ReturnErr
<1>. QED
  BY <1>9, <1>10, <1>11, <1>12, <1>13, <1>15, <1>16, <1>17, <1>18, <1>19,
     <1>21, <1>22, <1>23, <1>24 DEF Next, ThreadStep

\* Where a copy of j of n bytes ends: at the place j bytes on in the ring.
LEMMA NextWpAligned ==
  ASSUME NEW p \in Ports, NEW n \in Nat, NEW j \in 0..n, n <= Size[p],
         audio_real_wp[p] \in Nat, audio_real_wp[p] <= Size[p],
         NEW f \in Nat, audio_real_wp[p] % Size[p] = f % Size[p]
  PROVE  /\ NextWp(p, n, j) \in Nat /\ NextWp(p, n, j) <= Size[p]
         /\ NextWp(p, n, j) % Size[p] = (f + j) % Size[p]
<1> DEFINE w == audio_real_wp[p]
           m == Size[p]
           x == w + j
           y == f + j
           k == -1
           z == NextWp(p, n, j)
<1>1. /\ m \in Nat \ {0} /\ w \in Nat /\ w \in Int /\ f \in Int /\ j \in Nat
      /\ j \in Int /\ j <= n /\ n <= m /\ w <= m /\ w % m = f % m /\ k \in Int
  BY EsParserAssumption
<1>2. z = IF w + n > m /\ w + j >= m THEN w + j - m ELSE w + j
  BY DEF NextWp, RingEnd
<1> HIDE DEF w, m, z, k
<1>3. z \in Nat /\ z <= m
  BY <1>1, <1>2
<1>4. z = x \/ z = x + m * k
  BY <1>1, <1>2 DEF k
<1>5. x % m = y % m
  <2>1. m \in Nat \ {0} /\ w \in Int /\ f \in Int /\ j \in Int /\ w % m = f % m
    BY <1>1
  <2>. QED
    BY <2>1, RemainderOfSum, ZenonT(40)
<1>6. z % m = x % m
  <2>1. x \in Int
    BY <1>1
  <2> HIDE DEF x
  <2>2. (x + m * k) % m = x % m
    BY <1>1, <2>1, SameRemainder, ZenonT(40)
  <2>. QED
    BY <1>4, <2>2
<1>. QED
  BY <1>3, <1>5, <1>6 DEF z, m

\* The pointer moves by what enters the ring and starts anew with it; a time-out,
\* which undoes nothing, finds no fetch of an audio port.
LEMMA AlignedStep ==
  /\ TypeOK /\ Places /\ NoAudioFetch /\ Bounded /\ AudioAligned
  /\ [Next]_vars
  => AudioAligned'
<1> SUFFICES ASSUME TypeOK, Places, NoAudioFetch, Bounded, AudioAligned,
                    [Next]_vars
             PROVE  AudioAligned'
  OBVIOUS
<1>1. /\ audio_real_wp \in [Ports -> Nat] /\ fetched \in [Ports -> Nat]
      /\ len \in [Threads -> Nat] /\ PortOf \in [Threads -> Ports]
      /\ hport \in Ports
  BY EsParserAssumption DEF TypeOK, RingsType, CallsType, ParserType
<1> DEFINE Al(w, f, p) == w <= Size[p] /\ w % Size[p] = f % Size[p]
<1>2. \A p \in Ports : Kind[p] = "audio" => Al(audio_real_wp[p], fetched[p], p)
  BY DEF AudioAligned
<1>3. SUFFICES \A p \in Ports :
                 Kind[p] = "audio" => Al(audio_real_wp'[p], fetched'[p], p)
  BY DEF AudioAligned
<1>4. \A p \in Ports : Al(0, 0, p)
  <2>1. \A p \in Ports : Size[p] \in Nat \ {0}
    BY EsParserAssumption
  <2>. QED
    BY <2>1
<1> HIDE DEF Al
<1> DEFINE Goal == \A p \in Ports :
                     Kind[p] = "audio" => Al(audio_real_wp'[p], fetched'[p], p)
<1>5. ASSUME UNCHANGED <<audio_real_wp, fetched>>
      PROVE  Goal
  BY <1>2, <1>5
<1>6. ASSUME NEW p \in Ports, Open(p)
      PROVE  Goal
  <2>1. /\ audio_real_wp' = [audio_real_wp EXCEPT ![p] = 0]
        /\ fetched' = [fetched EXCEPT ![p] = 0]
    BY <1>6 DEF Open
  <2>. QED
    BY <1>1, <1>2, <1>4, <2>1
<1>7. ASSUME Move
      PROVE  Goal
  <2>1. Kind[hport] # "audio"
    BY <1>7 DEF Move, NoAudioFetch
  <2>2. /\ audio_real_wp' = audio_real_wp
        /\ \E k \in 1..hleft : fetched' = [fetched EXCEPT ![hport] = @ + k]
    BY <1>7 DEF Move
  <2>3. \A p \in Ports : p # hport => fetched'[p] = fetched[p]
    BY <1>1, <2>2
  <2>. QED
    BY <1>2, <2>1, <2>2, <2>3
<1>8. ASSUME NEW t \in Threads, AudioCopy(t)
      PROVE  Goal
  <2> DEFINE q == PortOf[t]
             n == len[t]
  <2>1. PICK j \in 0..n :
          /\ audio_real_wp' = [audio_real_wp EXCEPT ![q] = NextWp(q, n, j)]
          /\ fetched' = [fetched EXCEPT ![q] = @ + j]
    BY <1>8 DEF AudioCopy
  <2>2. q \in Ports /\ n \in Nat /\ audio_real_wp[q] \in Nat /\ fetched[q] \in Nat
    BY <1>1
  <2>3. /\ \A p \in Ports : p # q => audio_real_wp'[p] = audio_real_wp[p]
        /\ \A p \in Ports : p # q => fetched'[p] = fetched[p]
        /\ audio_real_wp'[q] = NextWp(q, n, j)
        /\ fetched'[q] = fetched[q] + j
    BY <1>1, <2>1, <2>2
  <2>4. ASSUME Kind[q] = "audio"
        PROVE  Al(audio_real_wp'[q], fetched'[q], q)
    <3>1. n <= Size[q]
      BY <1>8, <2>4 DEF AudioCopy, Bounded
    <3>2. /\ audio_real_wp[q] <= Size[q]
          /\ audio_real_wp[q] % Size[q] = fetched[q] % Size[q]
      BY <1>2, <2>2, <2>4 DEF Al
    <3> HIDE DEF q, n
    <3>3. /\ NextWp(q, n, j) <= Size[q]
          /\ NextWp(q, n, j) % Size[q] = (fetched[q] + j) % Size[q]
      BY <2>2, <3>1, <3>2, NextWpAligned
    <3>. QED
      BY <2>3, <3>3 DEF Al
  <2>. QED
    BY <1>2, <2>3, <2>4
<1>9. ASSUME \/ \E p \in Ports : OpenFail(p) \/ Close(p) \/ Consume(p)
             \/ Found \/ esparser_isr \/ UNCHANGED vars
      PROVE  Goal
  <2>1. UNCHANGED <<audio_real_wp, fetched>>
    BY <1>9 DEF OpenFail, Close, Consume, Found, esparser_isr, vars, rings
  <2>. QED
    BY <1>5, <2>1
<1>10. ASSUME NEW t \in Threads,
              \/ (\E n \in Counts : Begin(t, n))
              \/ CheckFits(t) \/ CheckShort(t) \/ TakeSpace(t) \/ TooShort(t)
              \/ TakePart(t) \/ SpaceFound(t) \/ SpaceTimeout(t)
              \/ Lock(t) \/ FetchFault(t) \/ Program(t) \/ Start(t)
              \/ Done(t) \/ Expire(t) \/ Interrupted(t)
       PROVE  Goal
  <2>1. UNCHANGED <<audio_real_wp, fetched>>
    BY <1>10 DEF Begin, CheckFits, CheckShort, TakeSpace, TooShort, TakePart,
                 SpaceFound, SpaceTimeout, Lock, FetchFault, Program, Start,
                 Done, Expire, Interrupted, rings
  <2>. QED
    BY <1>5, <2>1
<1>. QED
  BY <1>6, <1>7, <1>8, <1>9, <1>10 DEF Next, ThreadStep

\* In every behaviour, signals, late interrupts and stalled fetches included,
\* audio_real_wp is the place in the ring where the next byte of the audio
\* stream belongs, for rings of any size.
THEOREM AudioAlignedAlways == Spec => []AudioAligned
<1> DEFINE AudioInv == NoAudioFetch /\ Bounded /\ AudioAligned
<1>1. Init => AudioInv
  <2> SUFFICES ASSUME Init PROVE AudioInv
    OBVIOUS
  <2>1. NoAudioFetch
    BY DEF Init, NoAudioFetch
  <2>2. Bounded
    BY DEF Init, Bounded
  <2>3. AudioAligned
    <3>1. \A p \in Ports : audio_real_wp[p] = 0 /\ fetched[p] = 0
      BY DEF Init
    <3>2. \A p \in Ports : Size[p] \in Nat \ {0}
      BY EsParserAssumption
    <3>. QED
      BY <3>1, <3>2 DEF AudioAligned
  <2>. QED
    BY <2>1, <2>2, <2>3
<1>2. Base /\ AudioInv /\ [Next]_vars => AudioInv'
  BY NoAudioFetchStep, BoundedStep, AlignedStep DEF Base
<1>3. AudioInv => AudioAligned
  OBVIOUS
<1>. QED
  BY <1>1, <1>2, <1>3, BaseInvariance, PTL DEF Spec
=============================================================================
