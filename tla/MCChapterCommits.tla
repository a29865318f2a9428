-------------------------- MODULE MCChapterCommits --------------------------
(* The chapter-agenda and chapter-locator lanes and a reset script, on a   *)
(* record with a block of each lane and one of the audio lane.  The reset  *)
(* pushes the chapter lanes' blocks, then the audio lane's.                *)
EXTENDS ChapterCommits, TLC

CONSTANTS agendaRun, locatorRun, resetRun,
          agendaKey, locatorKey, writeKey,
          candidates, chapters, agendaText

McOuter ==
    [p \in Runs |-> CASE p = agendaRun  -> <<agendaKey>>
                      [] p = locatorRun -> <<locatorKey>>
                      [] p = resetRun   -> <<agendaKey, locatorKey>>]

McInner ==
    [p \in Runs |-> IF p \in {agendaRun, locatorRun} THEN <<writeKey>> ELSE <<>>]

McPushes ==
    [p \in Runs |-> CASE p = agendaRun  -> <<{candidates}>>
                      [] p = locatorRun -> <<{chapters}>>
                      [] p = resetRun   -> <<{candidates, chapters}, {agendaText}>>]

McEdits == [p \in Runs |-> UNION {McPushes[p][n] : n \in DOMAIN McPushes[p]}]

=============================================================================
