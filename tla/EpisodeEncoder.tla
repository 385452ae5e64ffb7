---------------------------- MODULE EpisodeEncoder ----------------------------
(***************************************************************************)
(* The legacy encoder, the stack that is deployed on every push: an object *)
(* in the input bucket starts an execution of a Step Functions machine     *)
(* that has it transcribed, translated and spoken into the output bucket.  *)
(*                                                                         *)
(*   infra/lib/podcast-language-encoder-stack.ts      the state machine    *)
(*   infra/lambda/process-transcript/index.ts         its Lambda function  *)
(*                                                                         *)
(* Names in the output bucket are made of the episode id only.  Events of  *)
(* the bucket are delivered at least once and in any order; a Lambda call  *)
(* whose answer is lost is made again while the first one may still run;   *)
(* an execution that fails or times out does not stop its function.        *)
(***************************************************************************)
EXTENDS Naturals, Sequences, FiniteSets, SequencesExt

CONSTANTS
    Keys,            \* object keys under episodes/
    Episodes,
    EpisodeOf,       \* key -> episode id: the file name up to its first dot
    MaxExecutions,   \* bound on the executions, numbered as they start
    Targets,         \* TARGET_LANGUAGES that have a voice, in their order
    Spoken,          \* languages Transcribe may identify
    Translations,    \* what Translate may answer: texts as the regex splits them
    ChunkSize,       \* POLLY_CHUNK_CHARS
    MaxParts,        \* bound on the parts of a translation
    MaxUploads,      \* bound on the uploads of a key
    MaxInvokes,      \* bound on the calls of the Lambda for an execution
    MaxFaults,       \* bound on failures and repeated deliveries
    None

\* A sentence with the blanks after it, by its characters (of one byte each):
\* how many, and at which positions the blanks are.  A stray run of . ! or ?
\* follows another run or stands at the start, so that no sentence takes it in.
Sentence == [size : Nat \ {0}, blank : SUBSET Nat, stray : BOOLEAN]

\* What the trimmed text from one position to another still has to say.
Heard(s, from, to) == Cardinality((from..to) \ s.blank)

ASSUME EncoderAssumption ==
    /\ EpisodeOf \in [Keys -> Episodes]
    /\ Targets \in Seq(STRING) /\ IsInjective(Targets)
    /\ Translations \subseteq Seq(Sentence) /\ ChunkSize \in Nat \ {0}
    /\ MaxUploads \in Nat /\ MaxFaults \in Nat
    /\ MaxInvokes \in Nat \ {0} /\ {MaxExecutions, MaxParts} \subseteq Nat
    /\ None \notin Keys /\ None \notin Spoken /\ None \notin 1..MaxExecutions
    /\ None \notin (1..MaxExecutions) \X (1..MaxInvokes)

\* Only at the end of a text can a sentence be blank.
ASSUME SentenceAssumption ==
    \A t \in Translations : \A i \in 1..Len(t) - 1 : Heard(t[i], 1, t[i].size) > 0

VARIABLES
    uploaded,     \* key -> version of the object, 0 before the first
    pending,      \* <<key, version>> whose event has not been delivered
    exec,         \* execution -> its key, its state and its call of the Lambda
    job,          \* execution -> its Transcribe job
    inv,          \* <<execution, call>> -> where the function is
    speech,       \* <<execution, call, language, part>> -> Polly task
    text,         \* <<episode, language>> -> transcript.txt
    manifest,     \* episode -> the call whose manifest.json it is, or None
    faults,
    newest,       \* history: episode -> the execution started last
    overlapped    \* history: episodes two calls or executions worked on at once

vars == <<uploaded, pending, exec, job, inv, speech, text, manifest, faults,
          newest, overlapped>>

Executions == 1..MaxExecutions

\* A chunk is trimmed: blanks at its ends go, and it is empty if nothing is
\* heard of it.  Its size is the one before that.
Chunk(s, from, to) == [size |-> to - from + 1, heard |-> Heard(s, from, to)]

\* A sentence that is longer than a chunk is cut every ChunkSize, and whatever
\* the trim leaves of a piece is a chunk.
HardSplit(s) ==
    [i \in 1..(s.size + ChunkSize - 1) \div ChunkSize |->
        Chunk(s, (i - 1) * ChunkSize + 1,
                 IF i * ChunkSize <= s.size THEN i * ChunkSize ELSE s.size)]

Nothing == [size |-> 0, heard |-> 0]

\* What is gathered is flushed, and trimmed, before it would be too long.
Gather(acc, s) ==
    LET full == acc.current.size + s.size > ChunkSize /\ acc.current.size > 0
        done == IF full THEN Append(acc.done, acc.current) ELSE acc.done
        left == IF full THEN Nothing ELSE acc.current
    IN  IF s.size > ChunkSize
        THEN [done |-> done \o HardSplit(s), current |-> left]
        ELSE [done |-> done,
              current |-> [size  |-> left.size + s.size,
                           heard |-> left.heard + Heard(s, 1, s.size)]]

\* match() passes over stray runs; a text of nothing else is one sentence.
PassedOver(sentences, i) ==
    sentences[i].stray /\ \E k \in DOMAIN sentences : ~sentences[k].stray

\* The chunks that are full and the one being gathered, after each sentence.
Gathering(sentences) ==
    LET after[i \in 0..Len(sentences)] ==
          IF i = 0 THEN [done |-> <<>>, current |-> Nothing]
          ELSE IF PassedOver(sentences, i) THEN after[i - 1]
          ELSE Gather(after[i - 1], sentences[i])
    IN  after

\* The chunks that are spoken, in order; a blank rest is not.
Chunks(sentences) ==
    LET end == Gathering(sentences)[Len(sentences)]
    IN  IF end.current.heard > 0 THEN Append(end.done, end.current) ELSE end.done

Parts == [t \in Translations \cup {<<>>} |-> Chunks(t)]

ASSUME PartsAssumption == \A t \in Translations : Len(Parts[t]) <= MaxParts

Languages == Spoken \cup ToSet(Targets)
Calls     == Executions \X (1..MaxInvokes)
Tasks     == Executions \X (1..MaxInvokes) \X ToSet(Targets) \X (1..MaxParts)

\* Part i of what a call says in a language, and what a call has written.
Task(c, l, i) == <<c[1], c[2], l, i>>
By(c, what)   == <<c[1], c[2], what>>

NoCall  == [phase |-> "off", at |-> 0, said |-> [l \in ToSet(Targets) |-> <<>>], started |-> 0]
NoExec  == [key |-> None, state |-> "unused", call |-> 0]
NoJob   == [status |-> "none", version |-> 0, language |-> None]

Init ==
    /\ uploaded = [k \in Keys |-> 0] /\ pending = {}
    /\ exec = [x \in Executions |-> NoExec]
    /\ job = [x \in Executions |-> NoJob]
    /\ inv = [c \in Calls |-> NoCall]
    /\ speech = [t \in Tasks |-> "none"]
    /\ text = [f \in Episodes \X Languages |-> None]
    /\ manifest = [e \in Episodes |-> None]
    /\ faults = 0
    /\ newest = [e \in Episodes |-> None]
    /\ overlapped = {}

Fault == faults < MaxFaults /\ faults' = faults + 1

Episode(x) == EpisodeOf[exec[x].key]
InState(x, s) == exec[x].state = s
Goes(x, s) == exec' = [exec EXCEPT ![x].state = s]

RunningCalls(x) == {n \in 1..MaxInvokes : inv[<<x, n>>].phase \in {"reading", "translating", "speaking"}}

\* Something may still write for the episode.
Active(x) == exec[x].state \in {"starting", "waiting", "invoking", "polling"} \/ RunningCalls(x) # {}
Busy(e) == \E x \in Executions : exec[x].key # None /\ Episode(x) = e /\ Active(x)

-----------------------------------------------------------------------------
(* The trigger. *)

Upload(k) ==
    /\ uploaded[k] < MaxUploads
    /\ uploaded' = [uploaded EXCEPT ![k] = @ + 1]
    /\ pending' = pending \cup {<<k, uploaded[k] + 1>>}
    /\ UNCHANGED <<exec, job, inv, speech, text, manifest, faults, newest, overlapped>>

\* An "Object Created" event starts an execution; it may be delivered again.
Trigger(x) ==
    /\ InState(x, "unused") /\ \A y \in 1..x - 1 : ~InState(y, "unused")
    /\ \E ev \in pending :
        LET e == EpisodeOf[ev[1]] IN
        /\ \/ pending' = pending \ {ev} /\ UNCHANGED faults
           \/ UNCHANGED pending /\ Fault
        /\ exec' = [exec EXCEPT ![x] = [key |-> ev[1], state |-> "starting", call |-> 0]]
        /\ newest' = [newest EXCEPT ![e] = x]
        /\ overlapped' = IF Busy(e) THEN overlapped \cup {e} ELSE overlapped
    /\ UNCHANGED <<uploaded, job, inv, speech, text, manifest>>

-----------------------------------------------------------------------------
(* Transcribe.  The job is named after the execution and reads the object  *)
(* when it runs, which may be a later version than the event's.            *)

StartTranscription(x) ==
    /\ InState(x, "starting")
    /\ job' = [job EXCEPT ![x].status = "queued"]
    /\ Goes(x, "waiting")
    /\ UNCHANGED <<uploaded, pending, inv, speech, text, manifest, faults, newest, overlapped>>

\* Another error than LimitExceededException, or ten of those.
StartRefused(x) ==
    /\ InState(x, "starting") /\ Fault
    /\ Goes(x, "failed")
    /\ UNCHANGED <<uploaded, pending, job, inv, speech, text, manifest, newest, overlapped>>

\* Its end counts while the execution asks for it.
TranscriptionEnds(x) ==
    /\ InState(x, "waiting") /\ job[x].status = "queued"
    /\ \/ \E l \in Spoken :
            job' = [job EXCEPT ![x] = [status   |-> "COMPLETED",
                                       version  |-> uploaded[exec[x].key],
                                       language |-> l]]
          /\ UNCHANGED faults
       \/ job' = [job EXCEPT ![x].status = "FAILED"] /\ Fault
    /\ UNCHANGED <<uploaded, pending, exec, inv, speech, text, manifest, newest, overlapped>>

\* A plausible bug: whatever is not COMPLETED is waited for.
AsksForGood(x) ==
    /\ InState(x, "waiting") /\ job[x].status = "COMPLETED"
    /\ exec' = [exec EXCEPT ![x].state = "invoking", ![x].call = 1]
    /\ inv' = [inv EXCEPT ![<<x, 1>>].phase = "reading"]
    /\ UNCHANGED <<uploaded, pending, job, speech, text, manifest, faults, newest, overlapped>>

\* GetTranscriptionJob every 30 seconds until the job is COMPLETED or FAILED.
GetTranscription(x) ==
    /\ InState(x, "waiting") /\ job[x].status \in {"COMPLETED", "FAILED"}
    /\ IF job[x].status = "FAILED"
       THEN Goes(x, "failed") /\ UNCHANGED inv
       ELSE /\ exec' = [exec EXCEPT ![x].state = "invoking", ![x].call = 1]
            /\ inv' = [inv EXCEPT ![<<x, 1>>].phase = "reading"]
    /\ UNCHANGED <<uploaded, pending, job, speech, text, manifest, faults, newest, overlapped>>

-----------------------------------------------------------------------------
(* The Lambda function, call c = <<execution, number>>, write by write.    *)

SourceOf(c) == job[c[1]].language
IsAt(c, phase) == inv[c].phase = phase

\* A plausible bug: the language of the episode is translated as well.
AnyAfter(i, source) == i + 1

\* The next target language that is not the episode's own, Len + 1 if none.
NextAfter(i, source) ==
    CHOOSE j \in i + 1..Len(Targets) + 1 :
        /\ j = Len(Targets) + 1 \/ Targets[j] # source
        /\ \A k \in i + 1..j - 1 : Targets[k] = source

\* The transcript is read and put beside the translations to come.
ReadTranscript(c) ==
    /\ IsAt(c, "reading")
    /\ text' = [text EXCEPT ![<<Episode(c[1]), SourceOf(c)>>] = By(c, "original")]
    /\ inv' = [inv EXCEPT ![c].phase = "translating", ![c].at = NextAfter(0, SourceOf(c))]
    /\ UNCHANGED <<uploaded, pending, exec, job, speech, manifest, faults, newest, overlapped>>

\* A translation is put and split for Polly; an empty one has no parts.
Translate(c) ==
    /\ IsAt(c, "translating") /\ inv[c].at <= Len(Targets)
    /\ LET r == inv[c]
           l == Targets[r.at]
       IN  /\ text' = [text EXCEPT ![<<Episode(c[1]), l>>] = By(c, "translated")]
           /\ \E said \in Translations :
                LET silent == Parts[said] = <<>> IN
                inv' = [inv EXCEPT ![c] =
                    [r EXCEPT !.said[l] = said, !.started = 0,
                              !.phase = IF silent THEN "translating" ELSE "speaking",
                              !.at = IF silent THEN NextAfter(r.at, SourceOf(c)) ELSE r.at]]
    /\ UNCHANGED <<uploaded, pending, exec, job, speech, manifest, faults, newest, overlapped>>

\* A Polly task for the next part; each writes a file of its own.
StartSpeech(c) ==
    /\ IsAt(c, "speaking")
    /\ LET r == inv[c]
            l == Targets[r.at]
            last == r.started + 1 = Len(Parts[r.said[l]])
       IN  /\ speech' = [speech EXCEPT ![Task(c, l, r.started + 1)] = "running"]
           /\ inv' = [inv EXCEPT ![c] =
                [r EXCEPT !.started = r.started + 1,
                          !.phase = IF last THEN "translating" ELSE "speaking",
                          !.at = IF last THEN NextAfter(r.at, SourceOf(c)) ELSE r.at]]
    /\ UNCHANGED <<uploaded, pending, exec, job, text, manifest, faults, newest, overlapped>>

\* Written when every task is started, before any has spoken.
PutManifest(c) ==
    /\ IsAt(c, "translating") /\ inv[c].at = Len(Targets) + 1
    /\ manifest' = [manifest EXCEPT ![Episode(c[1])] = c]
    /\ inv' = [inv EXCEPT ![c].phase = "returned"]
    /\ UNCHANGED <<uploaded, pending, exec, job, speech, text, faults, newest, overlapped>>

\* The part that is to be spoken next is empty: Polly may refuse it.
NextIsEmpty(c) ==
    /\ IsAt(c, "speaking")
    /\ Parts[inv[c].said[Targets[inv[c].at]]][inv[c].started + 1].heard = 0

\* Any request of the function fails, or its 15 minutes are over.
Throws(c) ==
    /\ c[2] \in RunningCalls(c[1])
    /\ Fault \/ (NextIsEmpty(c) /\ UNCHANGED faults)
    /\ inv' = [inv EXCEPT ![c].phase = "thrown"]
    /\ UNCHANGED <<uploaded, pending, exec, job, speech, text, manifest, newest, overlapped>>

-----------------------------------------------------------------------------
(* The machine around the function. *)

Call(x) == <<x, exec[x].call>>

InvokeEnds(x) ==
    /\ InState(x, "invoking")
    /\ \/ IsAt(Call(x), "returned") /\ Goes(x, "polling")
       \/ IsAt(Call(x), "thrown") /\ Goes(x, "failed")
    /\ UNCHANGED <<uploaded, pending, job, inv, speech, text, manifest, faults, newest, overlapped>>

\* retryOnServiceExceptions: a call whose answer is lost is made again.  The
\* function may not have run, may have ended, or may still be running.
InvokeRetried(x) ==
    /\ InState(x, "invoking") /\ exec[x].call < MaxInvokes /\ Fault
    /\ exec' = [exec EXCEPT ![x].call = @ + 1]
    /\ \E old \in {inv[Call(x)].phase}
                 \cup (IF IsAt(Call(x), "reading") THEN {"off"} ELSE {}) :
        /\ inv' = [inv EXCEPT ![Call(x)].phase = old,
                              ![<<x, exec[x].call + 1>>].phase = "reading"]
        /\ overlapped' = IF old \in {"off", "returned", "thrown"} THEN overlapped
                         ELSE overlapped \cup {Episode(x)}
    /\ UNCHANGED <<uploaded, pending, job, speech, text, manifest, newest>>

\* What the answer of call c has Polly speak.
Listed(c) == UNION {{Task(c, l, i) : i \in DOMAIN Parts[inv[c].said[l]]} :
                       l \in ToSet(Targets)}

\* A task's end shows in a poll only.
SpeechEnds(x) ==
    /\ InState(x, "polling")
    /\ \E t \in Listed(Call(x)) :
        /\ speech[t] = "running"
        /\ \/ speech' = [speech EXCEPT ![t] = "completed"] /\ UNCHANGED faults
           \/ speech' = [speech EXCEPT ![t] = "failed"] /\ Fault
    /\ UNCHANGED <<uploaded, pending, exec, job, inv, text, manifest, newest, overlapped>>

\* A plausible bug: any status but the running ones is taken for done.
PollsUntilEnded(x) ==
    /\ InState(x, "polling")
    /\ \A t \in Listed(Call(x)) : speech[t] # "running"
    /\ Goes(x, "succeeded")
    /\ UNCHANGED <<uploaded, pending, job, inv, speech, text, manifest, faults, newest, overlapped>>

\* GetSpeechSynthesisTask of every task, every 20 seconds, five at a time.
PollSpeech(x) ==
    /\ InState(x, "polling")
    /\ \/ (\A t \in Listed(Call(x)) : speech[t] = "completed") /\ Goes(x, "succeeded")
       \/ (\E t \in Listed(Call(x)) : speech[t] = "failed") /\ Goes(x, "failed")
    /\ UNCHANGED <<uploaded, pending, job, inv, speech, text, manifest, faults, newest, overlapped>>

\* The six hours are over, or a request of the machine fails, which is not
\* retried: jobs and functions go on without it.
Dies(x) ==
    /\ exec[x].state \in {"waiting", "invoking", "polling"} /\ Fault
    /\ Goes(x, "failed")
    /\ UNCHANGED <<uploaded, pending, job, inv, speech, text, manifest, newest, overlapped>>

-----------------------------------------------------------------------------
Machine(x) ==
    \/ StartTranscription(x) \/ GetTranscription(x)
    \/ InvokeEnds(x) \/ PollSpeech(x)

Function(c) == ReadTranscript(c) \/ Translate(c) \/ StartSpeech(c) \/ PutManifest(c)

Next ==
    \/ \E k \in Keys : Upload(k)
    \/ \E x \in Executions :
         \/ Trigger(x) \/ Machine(x) \/ TranscriptionEnds(x) \/ SpeechEnds(x)
         \/ StartRefused(x) \/ InvokeRetried(x) \/ Dies(x)
    \/ \E c \in Calls : Function(c) \/ Throws(c)

Spec == Init /\ [][Next]_vars

\* As long as the machine can move, a function of it runs or Transcribe or
\* Polly has to answer, one of these happens.
Progress(x) ==
    \/ Machine(x) \/ TranscriptionEnds(x) \/ SpeechEnds(x)
    \/ \E n \in 1..MaxInvokes : Function(<<x, n>>)

Fairness == \A x \in Executions : WF_vars(Progress(x))

FairSpec == Spec /\ Fairness

-----------------------------------------------------------------------------
(* What every variable holds. *)
TypeOK ==
    /\ uploaded \in [Keys -> 0..MaxUploads]
    /\ pending \subseteq Keys \X (1..MaxUploads)
    /\ \A x \in Executions :
        /\ exec[x].key \in Keys \cup {None} /\ exec[x].call \in 0..MaxInvokes
        /\ exec[x].state \in {"unused", "starting", "waiting", "invoking", "polling",
                              "succeeded", "failed"}
        /\ job[x].status \in {"none", "queued", "COMPLETED", "FAILED"}
        /\ job[x].language \in Spoken \cup {None} /\ job[x].version \in 0..MaxUploads
    /\ \A c \in Calls :
        /\ inv[c].phase \in {"off", "reading", "translating", "speaking", "returned", "thrown"}
        /\ inv[c].at \in 0..Len(Targets) + 1 /\ inv[c].started \in 0..MaxParts
        /\ \A l \in ToSet(Targets) : inv[c].said[l] \in Translations \cup {<<>>}
    /\ speech \in [Tasks -> {"none", "running", "completed", "failed"}]
    /\ \A e \in Episodes : manifest[e] \in Calls \cup {None}
    /\ faults \in 0..MaxFaults /\ overlapped \subseteq Episodes

(* Once the execution started last has succeeded, and nothing worked on    *)
(* the episode beside it, everything the output bucket has of the episode  *)
(* is its own: the manifest, every translation, and the original under the *)
(* language spoken in the newest upload.  (A late execution, a function    *)
(* whose call was repeated or whose execution died may overwrite any of    *)
(* them: names are made of the episode id only.)                           *)
PublishedIsNewest == \A e \in Episodes :
    LET x == newest[e] IN
    (x # None /\ ~Busy(e) /\ e \notin overlapped /\ exec[x].state = "succeeded") =>
        /\ manifest[e] = Call(x)
        /\ text[<<e, job[x].language>>] = By(Call(x), "original")
        /\ \A l \in ToSet(Targets) \ {job[x].language} :
              text[<<e, l>>] = By(Call(x), "translated")
        /\ (\A ev \in pending : EpisodeOf[ev[1]] # e) =>
              job[x].version = uploaded[exec[x].key]

Total(sizes) ==
    LET sum[i \in 0..Len(sizes)] == IF i = 0 THEN 0 ELSE sum[i - 1] + sizes[i]
    IN  sum[Len(sizes)]

\* What the parts say, and what the sentences of a text have to say.
Sounds(parts) == [i \in DOMAIN parts |-> parts[i].heard]

ToSay(sentences) == [i \in DOMAIN sentences |->
    IF PassedOver(sentences, i) THEN 0
    ELSE Heard(sentences[i], 1, sentences[i].size)]

(* A succeeded execution has audio of every sentence of its translations:  *)
(* Polly has completed every part for the call it took the answer of, the  *)
(* parts say together what the sentences say and none is too long for      *)
(* Polly; none is missing because a call was repeated, failed or was never *)
(* waited for.  A part is empty only where a sentence longer than a chunk  *)
(* was cut: one of exactly the limit with the blank after it is enough.    *)
AudioIsThere == \A x \in Executions : InState(x, "succeeded") =>
    \A l \in ToSet(Targets) :
        LET said  == inv[Call(x)].said[l]
            parts == Parts[said]
            audio == {i \in DOMAIN parts : speech[Task(Call(x), l, i)] = "completed"}
        IN  /\ audio = DOMAIN parts /\ Total(Sounds(parts)) = Total(ToSay(said))
            /\ \A i \in audio :
                /\ parts[i].size \in 1..ChunkSize
                /\ parts[i].heard = 0 => \E k \in DOMAIN said : said[k].size > ChunkSize

(* Every execution ends, the machine's polling loops included, without the *)
(* help of its six-hour timeout.                                           *)
EncodingEnds == \A x \in Executions :
    InState(x, "starting") ~> (InState(x, "succeeded") \/ InState(x, "failed"))

==============================================================================
