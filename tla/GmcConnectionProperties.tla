----------------------- MODULE GmcConnectionProperties -----------------------
(***************************************************************************)
(* What the connections to Merchant Center promise.                        *)
(***************************************************************************)
EXTENDS GmcConnection

\* A token never crosses from one connection to another, in no cache and no
\* sync, whatever was reconnected or revoked in between; and a row has a
\* refresh token exactly while it is active (ConnectionStore.tok, SupplierFor).
TokensStayHome ==
    /\ \A c \in Connections : (row[c].status = "active") <=> (row[c].grant \in held[c])
    /\ \A p \in Processes, c \in Connections : cache[p][c] \in held[c] \cup {None}
    /\ \A t \in Tasks : task[t].pc \in {"mint", "call", "refused"} =>
           task[t].grant \in held[task[t].on]

\* A sync revokes a connection only because Google refused a token that was
\* minted from a grant of that very connection: the grant had been withdrawn, or
\* the token had expired in the client's retries.  Errors of other kinds revoke
\* nothing (Client.do, handleSyncError, refreshOne).
RevocationEarned ==
    [][\A c \in Connections :
          (row[c].status = "active" /\ row'[c].status = "revoked") =>
              \/ \E f \in Flows : flow[f].pc = "disconnecting" /\ flow[f].on = c
              \/ \E t \in Tasks :
                    /\ task[t].pc = "refused" /\ task[t].on = c
                    /\ task[t].grant \in held[c]
                    /\ google[task[t].grant] # "good" \/ task[t].late]_vars

\* The syncs of both processes come to leave a grant alone once its connection has
\* been disconnected, revoked or renewed: neither a cache nor a sync under way keeps
\* its token, unless the user goes back to it.  The server reaches neither, and a
\* sync that was refreshing meanwhile caches the old token anew (SupplierFor, Disconnect).
Retired(c, g) == g \in held[c] /\ row[c].grant # g
InUse(c, g) ==
    \/ \E p \in Processes : cache[p][c] = g
    \/ \E t \in Tasks : task[t].on = c /\ task[t].grant = g

RetiredIsForgotten ==
    \A c \in Connections, g \in Grants : []<>(Retired(c, g) => ~ InUse(c, g))

\* When Google stops accepting the grant of the connection its store shows, the
\* store comes to show it: revoked, or an error at the last sync, unless it is
\* another connection by then (refreshOne, Touch).
Shown(c) == Newest(StoreOf[c]) = c /\ StoreOf[c] \in Paying
Broken(c) == row[c].status = "active" /\ google[row[c].grant] \in {"barred", "gone"}

BrokenIsVisible ==
    \A c \in Connections : []<>(Shown(c) /\ Broken(c) => sync[c] = "error")

=============================================================================
