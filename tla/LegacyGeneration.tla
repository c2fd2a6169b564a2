-------------------------- MODULE LegacyGeneration --------------------------
(***************************************************************************)
(* generate_forecast of domain/forecast.py in the Flask application, as far *)
(* as it waits for others: the calls it hands to the pool of threads that  *)
(* all forecasts of a process share, what it takes for the answers, and    *)
(* what it says of their sources.  Also get_marine_conditions, the services *)
(* of the same file, and get_water_temp of services/noaa.py.               *)
(*                                                                         *)
(* Every forecast is for a location.  A timeout may pass whenever a call   *)
(* has not ended, as one that still waits in the queue of the pool may be  *)
(* late as well.  The services turn what they catch into no data.  What is *)
(* computed of the answers, and astronomy, are left out.                   *)
(***************************************************************************)
EXTENDS Integers, SequencesExt

CONSTANTS
  Forecasts,       \* calls of generate_forecast, by the threads of a process
  Workers,         \* max_workers
  Marine,          \* Marine[f], the sources get_marine_conditions has, in their order
  Reports,         \* what each of them may report
  Others,          \* Others[f], the sources asked besides, in the order of their answers
  Images           \* species without an image

Data == {"wind", "waves", "wind_dir"}

(* All the sources besides, those that leave a note when they are late, and *)
(* the order in which they are taken.                                       *)
Order ==
  <<"alerts", "state alerts", "pressure", "weather", "environment", "water quality", "fao", "river",
    "bathymetry", "currents", "observation", "tides">>
Noted == {"alerts", "pressure", "weather", "environment", "tides"}

Place(s) == CHOOSE i \in DOMAIN Order : Order[i] = s

None == "none"
Nothing == "no data"
Located == "averages of the location"
Generic == "averages of the mid-Atlantic"
Averages == {Located, Generic}

ASSUME GenerationAssumption ==
  /\ Workers \in Nat \ {0}
  /\ \A f \in Forecasts : Marine[f] \in Seq(DOMAIN Reports)
  /\ \A s \in DOMAIN Reports : Reports[s] \subseteq Data /\ s \notin Averages \union {None, Nothing}
  /\ \A f \in Forecasts :
       /\ Others[f] \in Seq(Range(Order))
       /\ \A i, j \in DOMAIN Others[f] : i < j => Place(Others[f][i]) < Place(Others[f][j])
       /\ "observation" \in Range(Others[f]) <=> "currents" \in Range(Others[f])
  /\ IsFiniteSet(Images)
  /\ Images \intersect (Range(Order) \union {"marine", "temperature"}) = {}

VARIABLES
  step,        \* how far each forecast is: 0, the number of the answer it waits for, ...
  queue,       \* of the pool
  running,     \* the calls its threads are at
  found,       \* what marine calls have found so far: a source for each datum, or None
  tried,       \* how many of the marine sources
  answers,     \* of the calls that have ended
  late,        \* calls no longer waited for
  shown,       \* the source of what a forecast shows
  sources_used, fallbacks_triggered, \* lists that its calls and the forecast share
  published    \* the two as the forecast names them in the end

generationVars ==
  <<step, queue, running, found, tried, answers, late, shown, sources_used, fallbacks_triggered,
    published>>

Answers(f) == <<"marine", "temperature">> \o Others[f]
Collected(f) == Len(Answers(f)) + 1
Finished(f) == Collected(f) + 2

(* A call: of what and for which forecast. *)
Call(f, s) == [for |-> f, of |-> s]
ImagesOf(f) == {Call(f, i) : i \in Images}

Credit(s, d) == [source |-> s, datum |-> d]

-----------------------------------------------------------------------------
(* The pool.                                                                *)

Submitted(f) == [i \in 1..Len(Answers(f)) |-> Call(f, Answers(f)[i])]

Start(f) ==
  /\ step[f] = 0
  /\ step' = [step EXCEPT ![f] = 1]
  /\ queue' = queue \o Submitted(f)
  /\ UNCHANGED <<running, found, tried, answers, late, shown, sources_used, fallbacks_triggered, published>>

TakeCall ==
  /\ queue # <<>> /\ Cardinality(running) < Workers
  /\ running' = running \union {Head(queue)}
  /\ queue' = Tail(queue)
  /\ UNCHANGED <<step, found, tried, answers, late, shown, sources_used, fallbacks_triggered, published>>

(* mutant: a thread whose answer no one waits for stays with it *)
EndedInTime(c, a) ==
  /\ c \in running /\ c \notin late
  /\ running' = running \ {c}
  /\ answers' = [answers EXCEPT ![c.for] = @ \union {<<c.of, a>>}]

Ended(c, a) ==
  /\ c \in running
  /\ running' = running \ {c}
  /\ answers' = [answers EXCEPT ![c.for] = @ \union {<<c.of, a>>}]

EndOther(c) ==
  /\ c.of \notin {"marine", "temperature"}
  /\ \E a \in {"data", Nothing} : Ended(c, a)
  /\ UNCHANGED <<step, queue, found, tried, late, shown, sources_used, fallbacks_triggered, published>>

(* get_water_temp *)
EndTemperature(c) ==
  /\ c.of = "temperature"
  /\ \/ /\ Ended(c, "live")
        /\ sources_used' = [sources_used EXCEPT ![c.for] = @ \union {Credit("live", "temperature")}]
        /\ UNCHANGED fallbacks_triggered
     \/ /\ Ended(c, Located)
        /\ fallbacks_triggered' = [fallbacks_triggered EXCEPT ![c.for] = @ \union {"temperature"}]
        /\ UNCHANGED sources_used
  /\ UNCHANGED <<step, queue, found, tried, late, shown, published>>

Missing(f) == {d \in Data : found[f][d] = None}

(* One turn of the loop in get_marine_conditions: a source that fails       *)
(* reports nothing.                                                         *)
TrySource(c) ==
  LET f == c.for
      s == Marine[f][tried[f] + 1]
  IN /\ c \in running /\ c.of = "marine"
     /\ tried[f] < Len(Marine[f]) /\ Missing(f) # {}
     /\ tried' = [tried EXCEPT ![f] = @ + 1]
     /\ \E reported \in SUBSET Reports[s] :
          /\ found' = [found EXCEPT ![f] = [d \in Data |-> IF d \in Missing(f) \intersect reported THEN s ELSE found[f][d]]]
          /\ sources_used' = [sources_used EXCEPT ![f] = @ \union {Credit(s, d) : d \in Missing(f) \intersect reported}]
     /\ UNCHANGED <<step, queue, running, answers, late, shown, fallbacks_triggered, published>>

(* mutant: only what no source was asked for is said to be an average *)
NotesOfUntried(f) == IF tried[f] = 0 THEN Missing(f) ELSE {}

NotesOf(f) == Missing(f)

(* get_marine_conditions catches what a source raises and the averages      *)
(* cannot fail, so the default of its retries is not reached.               *)
EndMarine(c) ==
  LET f == c.for
  IN /\ c.of = "marine"
     /\ tried[f] = Len(Marine[f]) \/ Missing(f) = {}
     /\ Ended(c, "data")
     /\ found' = [found EXCEPT ![f] = [d \in Data |-> IF d \in Missing(f) THEN Located ELSE found[f][d]]]
     /\ fallbacks_triggered' = [fallbacks_triggered EXCEPT ![f] = @ \union NotesOf(f)]
     /\ UNCHANGED <<step, queue, tried, late, shown, sources_used, published>>

-----------------------------------------------------------------------------
(* The forecast, which waits for one answer after the other.                *)

Awaited(f) == Answers(f)[step[f]]
AnswersOf(f, s) == {a[2] : a \in {b \in answers[f] : b[1] = s}}

WithData(f, data) == [d \in DOMAIN shown[f] |-> IF d \in Data THEN data[d] ELSE shown[f][d]]

(* What an answer adds to the forecast, and to its credits: an observation  *)
(* of the currents is shown among the predictions, and credited as such.    *)
Shows(f, s, a) ==
  IF s = "marine" THEN WithData(f, found[f])
  ELSE [shown[f] EXCEPT ![s] = IF s = "temperature" THEN a ELSE IF a = "data" THEN s ELSE Nothing]

Credits(f, s, a) ==
  CASE s \in {"marine", "temperature", "currents"} -> {}
    [] s = "observation" ->
         {Credit(s, s) : x \in {"data"} \intersect {a}}
           \union {Credit("currents", "currents") : x \in {"data", "currents"} \intersect {a, shown[f]["currents"]}}
    [] OTHER -> {Credit(s, s) : x \in {"data"} \intersect {a}}

Receive(f) ==
  /\ step[f] \in DOMAIN Answers(f)
  /\ \E a \in AnswersOf(f, Awaited(f)) :
       /\ shown' = [shown EXCEPT ![f] = Shows(f, Awaited(f), a)]
       /\ sources_used' = [sources_used EXCEPT ![f] = @ \union Credits(f, Awaited(f), a)]
  /\ step' = [step EXCEPT ![f] = @ + 1]
  /\ UNCHANGED <<queue, running, found, tried, answers, late, fallbacks_triggered, published>>

(* "marine_forecast_timeout", "water_temp_timeout", "..._unavailable"       *)
NoteOf(s) == (Noted \union {"marine", "temperature"}) \intersect {s}

TimeOut(f) ==
  LET s == Awaited(f)
      without == IF s = "marine" THEN WithData(f, [d \in Data |-> Generic])
                 ELSE [shown[f] EXCEPT ![s] = IF s = "temperature" THEN Generic ELSE Nothing]
  IN /\ step[f] \in DOMAIN Answers(f)
     /\ AnswersOf(f, s) = {}
     /\ late' = late \union {Call(f, s)}
     /\ shown' = [shown EXCEPT ![f] = without]
     /\ sources_used' = [sources_used EXCEPT ![f] = @ \union Credits(f, s, Nothing)]
     /\ fallbacks_triggered' = [fallbacks_triggered EXCEPT ![f] = @ \union NoteOf(s)]
     /\ step' = [step EXCEPT ![f] = @ + 1]
     /\ UNCHANGED <<queue, running, found, tried, answers, published>>

(* _attach_species_images *)
AskForImages(f) ==
  /\ step[f] = Collected(f)
  /\ queue' = queue \o SetToSeq(ImagesOf(f))
  /\ step' = [step EXCEPT ![f] = @ + 1]
  /\ UNCHANGED <<running, found, tried, answers, late, shown, sources_used, fallbacks_triggered, published>>

(* as_completed() without a timeout. *)
Publish(f) ==
  /\ step[f] = Collected(f) + 1
  /\ \A i \in Images : AnswersOf(f, i) # {}
  /\ published' = [published EXCEPT ![f] = [credits |-> sources_used[f], notes |-> fallbacks_triggered[f]]]
  /\ step' = [step EXCEPT ![f] = Finished(f)]
  /\ UNCHANGED <<queue, running, found, tried, answers, late, shown, sources_used, fallbacks_triggered>>

GenerationInit ==
  /\ step = [f \in Forecasts |-> 0]
  /\ queue = <<>> /\ running = {} /\ late = {}
  /\ found = [f \in Forecasts |-> [d \in Data |-> None]]
  /\ tried = [f \in Forecasts |-> 0]
  /\ answers = [f \in Forecasts |-> {}]
  /\ shown = [f \in Forecasts |-> [d \in Data \union (Range(Answers(f)) \ {"marine"}) |-> None]]
  /\ sources_used = [f \in Forecasts |-> {}] /\ fallbacks_triggered = sources_used
  /\ published = [f \in Forecasts |-> [credits |-> {}, notes |-> {}]]

Calls == UNION {{Call(f, s) : s \in Range(Answers(f)) \union Images} : f \in Forecasts}

CallStep(c) == EndOther(c) \/ EndTemperature(c) \/ TrySource(c) \/ EndMarine(c)

PoolStep == TakeCall \/ \E c \in Calls : CallStep(c)
ForecastStep(f) == Receive(f) \/ TimeOut(f) \/ AskForImages(f) \/ Publish(f)

GenerationNext == PoolStep \/ \E f \in Forecasts : Start(f) \/ ForecastStep(f)

(* The pool's threads run, and each call ends, by the timeouts of its       *)
(* requests and the bounds on their retries; a forecast under way goes on,  *)
(* by the timeouts of its own.                                              *)
GenerationFairness ==
  /\ WF_generationVars(TakeCall)
  /\ \A c \in Calls : WF_generationVars(CallStep(c))
  /\ \A f \in Forecasts : WF_generationVars(ForecastStep(f))

GenerationSpec == GenerationInit /\ [][GenerationNext]_generationVars /\ GenerationFairness

-----------------------------------------------------------------------------
(* A forecast names its sources truly, though the calls it has given up on  *)
(* go on adding to its lists: what it shows of a source is credited to it,  *)
(* and an average is noted; what is credited is shown, except of a call it  *)
(* no longer waited for, and except predictions of the currents, which an   *)
(* observation is enough for.                                               *)
CreditsMatchTheForecast ==
  \A f \in Forecasts : step[f] = Finished(f) =>
    LET credits == published[f].credits
        From(d) == IF d \in Data THEN "marine" ELSE d
    IN /\ \A d \in DOMAIN shown[f] :
            /\ shown[f][d] \notin Averages \union {Nothing} => Credit(shown[f][d], d) \in credits
            /\ shown[f][d] \in Averages => {d, From(d)} \intersect published[f].notes # {}
       /\ \A c \in credits :
            \/ shown[f][c.datum] = c.source
            \/ Call(f, From(c.datum)) \in late
            \/ c.datum = "currents" /\ shown[f]["observation"] = "observation"

(* Every forecast that is begun is made (none is begun twice), even if the  *)
(* calls of others, given up on or not, hold all the threads of the pool,   *)
(* and although it waits for the images without a timeout.                  *)
GenerationsEnd == <>[](\A f \in Forecasts : step[f] \in {0, Finished(f)})

(* "Absolute last resort when no location is set": the generic averages are *)
(* for no forecast of a location.  It does not hold: they stand in for the  *)
(* answers that are late.                                                   *)
NoForeignAverages == \A f \in Forecasts : \A d \in DOMAIN shown[f] : shown[f][d] # Generic
=============================================================================
