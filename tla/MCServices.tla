---------------------------- MODULE MCServices ----------------------------
(* Instances of the services around the graph for TLC: the trust chain, audit
   receipts, authentication of sync requests, time travel and the WebSocket
   service.  They share no state: each behaviour is one of one of them. *)
EXTENDS AuditLog, SyncTransport, Seek, Serve, TLC

CONSTANTS k1, k2, a1, a2, p1, p2, h1, h2

MCSlot == {<<p1, 1>>, <<p2, 1>>}

MCPermutations == Permutations({k1, k2}) \cup Permutations({a1, a2})
                    \cup Permutations({h1, h2})

\* one thing wrong at a time: a defect, a clock that is off, a writer
MCShape ==
    {[frontier |-> {"w1"}, defect |-> d, offset |-> 0] : d \in syncDefects}
      \cup {[frontier |-> {"w1"}, defect |-> "none", offset |-> o] : o \in -2..2}
      \cup {[frontier |-> W, defect |-> "none", offset |-> 0] : W \in {{}, {"w2"}, {"w1", "w2"}}}

VARIABLE component

mcVars == <<component, trustVars, auditVars, transportVars, seekVars, serveVars>>

Init == /\ component \in {"trust", "audit", "transport", "seek", "serve"}
        /\ TrustInit /\ AuditInit /\ TransportInit /\ SeekInit /\ ServeInit
        /\ component # "audit" => tick = 0
        /\ component # "transport" => authMode = "none"

Next ==
    /\ UNCHANGED component
    /\ \/ /\ component = "trust" /\ TrustNext
          /\ UNCHANGED <<auditVars, transportVars, seekVars, serveVars>>
       \/ /\ component = "audit" /\ AuditNext
          /\ UNCHANGED <<trustVars, transportVars, seekVars, serveVars>>
       \/ /\ component = "transport" /\ TransportNext
          /\ UNCHANGED <<trustVars, auditVars, seekVars, serveVars>>
       \/ /\ component = "seek" /\ SeekNext
          /\ UNCHANGED <<trustVars, auditVars, transportVars, serveVars>>
       \/ /\ component = "serve" /\ ServeNext
          /\ UNCHANGED <<trustVars, auditVars, transportVars, seekVars>>

Spec == Init /\ [][Next]_mcVars
=============================================================================
