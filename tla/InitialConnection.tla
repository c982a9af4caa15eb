-------------------------- MODULE InitialConnection --------------------------
(***************************************************************************)
(* Plugins that verify where a connection to a cluster endpoint has led:   *)
(* the Aurora initial connection strategy plugin, which looks for a host   *)
(* of the right role until its time is up, and the StaleDnsHelper of the   *)
(* failover plugins, which replaces a connection to a reader by one to the *)
(* writer.  Regions and the selection strategy among readers are left out. *)
(***************************************************************************)
EXTENDS Authentication

RoleOf(h, w) == IF h = w THEN "writer" ELSE "reader"

\* host_info_util.GetWriter, or a reader by strategy: one that is available.
Candidates(c) ==
  IF call[c].topo = None THEN {None}
  ELSE IF cfg.url = "writer" THEN {call[c].topo}
  ELSE LET readers == Hosts \ ({call[c].topo} \cup call[c].unavail)
       IN  IF readers = {} THEN {None} ELSE readers

\* getVerifiedWriterConnection and getVerifiedReaderConnection: an iteration
\* begins.  Without a candidate the topology is outdated: the endpoint is used.
\* When the time is up the call continues with a normal workflow.
Pick(c) ==
  /\ At(c, "pick")
  /\ IF call[c].late
       THEN Update(c, ConnectTo(call[c], cfg.url, "plain"))
       ELSE \E h \in Candidates(c) :
              Update(c, IF h = None THEN ConnectTo(call[c], cfg.url, "identify")
                                    ELSE ConnectTo(call[c], h, "verify"))
  /\ UNCHANGED <<cluster, cached, faults>>

Closed(c) == call[c].open \ {call[c].cand}

\* handleErrorAndShouldRetry
HandleError(c, h) ==
  IF call[c].res = "login"
    THEN Done(call[c], "login", None)
    ELSE Settled([call[c] EXCEPT !.open = Closed(c), !.unavail = @ \cup ({h} \ {None})], "pick")

\* MUTANT of Again: the connection is not closed.
ForgetAndTryAgain(c) == Settled([call[c] EXCEPT !.topo = writer, !.unavail = {}], "pick")

\* The host has the wrong role: its connection is closed and the topology,
\* now refreshed, is used for another try.
Again(c) ==
  Settled([call[c] EXCEPT !.topo = writer, !.unavail = {}, !.open = Closed(c)], "pick")

\* The connection is returned; its host becomes the initial one.
Verified(k) == Done([k EXCEPT !.verified = TRUE], "ok", k.cand)

\* MUTANT of RoleFits: any host will do.
AnyRole(c) == TRUE

\* GetHostRole, or the role that IdentifyConnection finds in the topology just
\* refreshed.
RoleFits(c) == RoleOf(ConnHost(call[c].cand), writer) = cfg.url

HasNoReaders == cfg.url = "reader" /\ Hosts = {writer}

\* The connection was made.  A connection to the endpoint is identified after
\* the host list is refreshed; the role of a candidate is asked first, and the
\* host list refreshed if it is the wrong one.
Judge(c) ==
  \/ At(c, "verify") /\ RoleFits(c) /\ Update(c, Verified(call[c]))
  \/ /\ At(c, "identify") \/ ~ RoleFits(c)
     /\ Update(c, IF RoleFits(c) \/ HasNoReaders
                    THEN Verified([call[c] EXCEPT !.topo = writer, !.unavail = {}])
                    ELSE Again(c))

\* The connection to the endpoint or to the candidate was made or not, and a
\* refresh of the host list may fail.
CheckCandidate(c) ==
  /\ call[c].pc \in {"identify", "verify"}
  /\ LET h == IF At(c, "verify") THEN call[c].tgt ELSE None IN
     \/ call[c].res # "ok" /\ Update(c, HandleError(c, h)) /\ UNCHANGED faults
     \/ call[c].res = "ok" /\ Judge(c) /\ UNCHANGED faults
     \/ /\ call[c].res = "ok" /\ (At(c, "identify") \/ ~ RoleFits(c))
        /\ Update(c, HandleError(c, h)) /\ Spend
  /\ UNCHANGED <<cluster, cached>>

\* connectFunc, with nothing verified.
Plain(c) ==
  /\ At(c, "plain")
  /\ Update(c, Done(call[c], call[c].res, call[c].cand))
  /\ UNCHANGED <<cluster, cached, faults>>

-----------------------------------------------------------------------------
(* StaleDnsHelper.GetVerifiedConnection.                                   *)

\* The endpoint was dialled; the topology is refreshed, by force if the host is a
\* reader, and the writer looked up unless one is remembered from an earlier call.
StaleDnsCheck(c) ==
  /\ At(c, "staleCheck")
  /\ LET isReader == RoleOf(ConnHost(call[c].cand), writer) = "reader"
         known == IF isReader THEN {writer} ELSE {writer, call[c].topo} \ {None}
     IN
     \/ /\ call[c].res # "ok"
        /\ Update(c, Done(call[c], call[c].res, None)) /\ UNCHANGED faults
     \/ /\ call[c].res = "ok"
        /\ Update(c, Done(call[c], "error", None)) /\ Spend
     \/ /\ call[c].res = "ok"
        /\ UNCHANGED faults
        /\ \E w \in known :
             LET remembered == IF call[c].writerInfo = None THEN w ELSE call[c].writerInfo
                 knows == [call[c] EXCEPT !.topo = w, !.writerInfo = remembered]
             IN  Update(c, IF isReader
                             THEN ConnectTo([knows EXCEPT !.conn = call[c].cand],
                                            remembered, "staleWriter")
                             ELSE Done(knows, "ok", call[c].cand))
  /\ UNCHANGED <<cluster, cached>>

\* The connection to the writer replaces the one to the reader.
StaleDnsReplace(c) ==
  /\ At(c, "staleWriter")
  /\ Update(c, IF call[c].res = "ok"
                 THEN Done([call[c] EXCEPT !.open = @ \ {call[c].conn}], "ok", call[c].cand)
                 ELSE Done(call[c], call[c].res, None))
  /\ UNCHANGED <<cluster, cached, faults>>

InitialStep(c) ==
  Pick(c) \/ CheckCandidate(c) \/ Plain(c) \/ StaleDnsCheck(c) \/ StaleDnsReplace(c)

=============================================================================
