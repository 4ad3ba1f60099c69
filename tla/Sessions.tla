------------------------------ MODULE Sessions ------------------------------
(***************************************************************************)
(* Chat sessions and their messages (src/pkg/store/session.go), and the    *)
(* extraction of facts that AddMessage fires after every so many messages  *)
(* (src/pkg/gracedb/session.go, knowledge_memory.go).                      *)
(*                                                                         *)
(* A write holds s.mu from its check to its transaction and is one step.   *)
(* The settings and the counters are globals of the process: a restart     *)
(* loses them, the deletion of a session does not touch them.              *)
(***************************************************************************)
EXTENDS AgentStore

CONSTANTS
  Talkers,      \* goroutines calling AddMessage
  MaxMessages,  \* bound on the messages
  Settings      \* the settings SetAutoRetain is called with, defaults filled in

Off == [enabled |-> FALSE, window |-> 0, every |-> 0]

ASSUME SessionsAssumption ==
  /\ MaxMessages \in Nat
  /\ Settings \subseteq [enabled : BOOLEAN, window : Nat \ {0}, every : Nat \ {0}]

VARIABLES
  sess,     \* ses:<id>: not created yet, stored, or deleted
  msgs,     \* msg:<session>:<id>, the stored messages
  clock,    \* the creation time, and the ID, of the latest message
  cfg,      \* globalAutoRetainCfg
  counter,  \* sessionCounters
  talk,     \* what each AddMessage is at
  jobs      \* the goroutines of triggerExtraction

sessionVars == <<sess, msgs, clock, cfg, counter, talk, jobs>>

(* heard: the role of the message passes the role filter.                  *)
Messages == [session : Sessions, at : 1..MaxMessages, heard : BOOLEAN]
Silent == [pc |-> "idle"]

SessionsInit ==
  /\ sess = [s \in Sessions |-> "none"]
  /\ msgs = {} /\ clock = 0
  /\ cfg = Off
  /\ counter = [s \in Sessions |-> 0]
  /\ talk = [p \in Talkers |-> Silent]
  /\ jobs = {}

(* The messages of a session, sorted by the time they were created at: the *)
(* i-th is the one up to which there are i of them.                        *)
MessagesOf(s) ==
  LET own == {m \in msgs : m.session = s}
      upTo(m) == {x \in own : x.at <= m.at}
  IN  [i \in 1..Cardinality(own) |-> CHOOSE m \in own : Cardinality(upTo(m)) = i]

(* Mutant: the messages are not sorted, here the latest comes first.       *)
HistoryUnsorted(s, n) ==
  LET all == Reverse(MessagesOf(s)) IN SubSeq(all, Len(all) - Min({n, Len(all)}) + 1, Len(all))

(* GetSessionHistory: the last n messages of a session by creation time.   *)
History(s, n) ==
  LET all == MessagesOf(s) IN SubSeq(all, Len(all) - Min({n, Len(all)}) + 1, Len(all))

-----------------------------------------------------------------------------
CreateSession(s) ==
  /\ sess[s] = "none"
  /\ sess' = [sess EXCEPT ![s] = "stored"]
  /\ UNCHANGED <<msgs, clock, cfg, counter, talk, jobs>>

(* Mutant: the messages of the session stay.                               *)
DeleteSessionOnly(s) ==
  /\ sess[s] = "stored"
  /\ sess' = [sess EXCEPT ![s] = "deleted"]
  /\ UNCHANGED <<msgs, clock, cfg, counter, talk, jobs>>

(* The session goes with its messages, in one transaction.                 *)
DeleteSession(s) ==
  /\ sess[s] = "stored"
  /\ sess' = [sess EXCEPT ![s] = "deleted"]
  /\ msgs' = {m \in msgs : m.session # s}
  /\ UNCHANGED <<clock, cfg, counter, talk, jobs>>

DeleteMessage(m) ==
  /\ m \in msgs
  /\ msgs' = msgs \ {m}
  /\ UNCHANGED <<sess, clock, cfg, counter, talk, jobs>>

(* AddMessage gives the message its ID and time before it takes s.mu.      *)
Say(p, s, heard) ==
  /\ talk[p] = Silent
  /\ sess[s] # "none"
  /\ clock < MaxMessages
  /\ clock' = clock + 1
  /\ talk' = [talk EXCEPT ![p] = [pc |-> "storing",
               msg |-> [session |-> s, at |-> clock + 1, heard |-> heard]]]
  /\ UNCHANGED <<sess, msgs, cfg, counter, jobs>>

(* Under s.mu: the session must exist for the message to be stored.        *)
StoreMessage(p) ==
  /\ talk[p].pc = "storing"
  /\ IF sess[talk[p].msg.session] = "stored"
     THEN /\ msgs' = msgs \cup {talk[p].msg}
          /\ talk' = [talk EXCEPT ![p].pc = "counting"]
     ELSE /\ talk' = [talk EXCEPT ![p] = Silent]
          /\ UNCHANGED msgs
  /\ UNCHANGED <<sess, clock, cfg, counter, jobs>>

(* The settings are read and, if they ask for it, the message is counted.  *)
CountMessage(p) ==
  /\ talk[p].pc = "counting"
  /\ LET s == talk[p].msg.session IN
       IF cfg.enabled /\ talk[p].msg.heard
       THEN /\ counter' = [counter EXCEPT ![s] = @ + 1]
            /\ talk' = IF counter'[s] % cfg.every = 0
                       THEN [talk EXCEPT ![p].pc = "firing"]
                       ELSE [talk EXCEPT ![p] = Silent]
       ELSE /\ talk' = [talk EXCEPT ![p] = Silent]
            /\ UNCHANGED counter
  /\ UNCHANGED <<sess, msgs, clock, cfg, jobs>>

(* fireAutoRetain reads the settings again and launches the extraction, if *)
(* an extractor is registered.                                             *)
Fire(p) ==
  /\ talk[p].pc = "firing"
  /\ \/ UNCHANGED jobs
     \/ jobs' = jobs \cup {[pc |-> "reading", trigger |-> talk[p].msg,
                            size |-> cfg.window, window |-> <<>>, todo |-> {}]}
  /\ talk' = [talk EXCEPT ![p] = Silent]
  /\ UNCHANGED <<sess, msgs, clock, cfg, counter>>

SetAutoRetain(c) ==
  /\ c # cfg
  /\ cfg' = c
  /\ UNCHANGED <<sess, msgs, clock, counter, talk, jobs>>

(* The extraction reads the history when the scheduler gets to it.         *)
ReadWindow(j) ==
  /\ j.pc = "reading"
  /\ LET window == History(j.trigger.session, j.size) IN
       jobs' = (jobs \ {j}) \cup
                 (IF window = <<>> THEN {}
                  ELSE {[j EXCEPT !.pc = "extracting", !.window = window]})
  /\ UNCHANGED <<sess, msgs, clock, cfg, counter, talk>>

(* The extractor is the caller's: it finds any facts, or none, or fails.   *)
ExtractFacts(j) ==
  /\ j.pc = "extracting"
  /\ \E found \in SUBSET FactIds :
       jobs' = (jobs \ {j}) \cup
                 (IF found = {} THEN {} ELSE {[j EXCEPT !.pc = "saving", !.todo = found]})
  /\ UNCHANGED <<sess, msgs, clock, cfg, counter, talk>>

(* Mutant: the facts are saved without a session.                          *)
RetainGlobal(j, f) ==
  /\ j.pc = "saving" /\ f \in j.todo
  /\ \/ /\ SaveMemory(Fact(f), Bucket(NoSession, "auto-retained"), j.window)
        /\ UNCHANGED <<know, left>>
     \/ SaveFails
  /\ jobs' = (jobs \ {j}) \cup
               (IF j.todo = {f} THEN {} ELSE {[j EXCEPT !.todo = @ \ {f}]})
  /\ UNCHANGED <<sess, msgs, clock, cfg, counter, talk>>

(* The facts are saved one by one; an error is not looked at.              *)
Retain(j, f) ==
  /\ j.pc = "saving" /\ f \in j.todo
  /\ \/ /\ SaveMemory(Fact(f), Bucket(j.trigger.session, "auto-retained"), j.window)
        /\ UNCHANGED <<know, left>>
     \/ SaveFails
  /\ jobs' = (jobs \ {j}) \cup
               (IF j.todo = {f} THEN {} ELSE {[j EXCEPT !.todo = @ \ {f}]})
  /\ UNCHANGED <<sess, msgs, clock, cfg, counter, talk>>

(* A restart keeps what the database holds, and nothing else.              *)
SessionsRestart ==
  /\ cfg' = Off
  /\ counter' = [s \in Sessions |-> 0]
  /\ talk' = [p \in Talkers |-> Silent]
  /\ jobs' = {}
  /\ UNCHANGED <<sess, msgs, clock>>
=============================================================================
