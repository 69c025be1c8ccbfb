------------------------- MODULE ResourceAllocator -------------------------
(***************************************************************************)
(* The Resource Allocator Agent (agents/raa/agent.py) and the sealed-bid   *)
(* auction it runs over the bids of the RCAs (coordination/auction.py).    *)
(* A step has no point at which another agent can come in between.  A      *)
(* granted slot is announced on RESOURCE_GRANTS, which nobody reads.       *)
(***************************************************************************)
EXTENDS AgentLog

CONSTANTS
    Slots,              \* quarantine_slots
    MonitorInterval     \* _MONITOR_INTERVAL_MS

ASSUME SlotsAssumption == Slots \in Nat

VARIABLES
    bidInbox,       \* bids on RESOURCE_BIDS that the RAA has not perceived
    resolutions,    \* times of the notices on RESOLUTION it has not perceived
    lastMonitor     \* self._last_monitor_ms

raaVars == <<bidInbox, resolutions, lastMonitor>>

BidRecord == [bidder: {Segments[i] : i \in DOMAIN Segments}, value: 0..100, ts_ms: Int]

RaaInit ==
    /\ bidInbox = <<>>
    /\ resolutions = <<>>
    /\ lastMonitor = LongAgo

-----------------------------------------------------------------------------
(* run_auction: sorted by value, then by the time of submission; the sort is *)
(* stable.                                                                   *)

Precedes(bids, i, j) ==
    \/ bids[i].value > bids[j].value
    \/ bids[i].value = bids[j].value /\ bids[i].ts_ms < bids[j].ts_ms
    \/ bids[i].value = bids[j].value /\ bids[i].ts_ms = bids[j].ts_ms /\ i < j
run_auction_InOrder(bids, slots) == {bids[j].bidder : j \in {k \in DOMAIN bids : k <= slots}}
run_auction(bids, slots) ==
    {bids[j].bidder : j \in {k \in DOMAIN bids :
        Cardinality({i \in DOMAIN bids : Precedes(bids, i, k)}) < slots}}

\* The best bid of each bidder, the earliest among equals, in the order in
\* which the bidders first bid: the values of the dict `best'.
BestBid_Last(bids, b) ==
    CHOOSE i \in DOMAIN bids :
        bids[i].bidder = b /\ \A j \in DOMAIN bids : bids[j].bidder = b => j <= i
BestBid(bids, b) ==
    CHOOSE i \in DOMAIN bids :
        /\ bids[i].bidder = b
        /\ \A j \in DOMAIN bids : bids[j].bidder = b =>
              \/ bids[i].value > bids[j].value
              \/ bids[i].value = bids[j].value /\ i <= j
Firsts(bids) == {i \in DOMAIN bids : \A j \in 1..(i - 1) : bids[j].bidder # bids[i].bidder}
FirstBids(bids) == InOrder(Firsts(bids))
BestBids(bids) ==
    [n \in DOMAIN FirstBids(bids) |-> bids[BestBid(bids, bids[FirstBids(bids)[n]].bidder)]]

-----------------------------------------------------------------------------
(* One step: the bids, then the notices of resolution, then _manage.        *)

\* `self._first_bid_ms or now': a first bid at time 0 counts as made now.
FirstBidTime == IF bidInbox[1].ts_ms = 0 THEN now ELSE bidInbox[1].ts_ms

AuctionCompleted ==
    LET best == BestBids(bidInbox)
    IN Event("AUCTION_COMPLETED", "RAA", now - FirstBidTime,
             [bids |-> [n \in DOMAIN best |-> <<best[n].bidder, best[n].value>>],
              granted |-> run_auction(best, Slots), slots |-> Slots,
              notify_latency_ms |-> 0])

\* However many incidents were resolved, one reclaim, timed from the last.
Reclaim ==
    Event("RESOURCE_ALLOCATED", "RAA", now - resolutions[Len(resolutions)],
          [signal |-> "reclaim"])

\* The overhead is the simulator's, whose pool no agent draws on.
MonitorDue == now - lastMonitor >= MonitorInterval
MonitorOverhead ==
    Event("RESOURCE_ALLOCATED", "RAA", None,
          [signal |-> "overhead", overhead |-> 0, status |-> "OK"])

RaaStep ==
    /\ LogEvents((IF bidInbox # <<>> THEN <<AuctionCompleted>> ELSE <<>>)
                 \o (IF resolutions # <<>> THEN <<Reclaim>> ELSE <<>>)
                 \o (IF MonitorDue THEN <<MonitorOverhead>> ELSE <<>>))
    /\ bidInbox' = <<>>
    /\ resolutions' = <<>>
    /\ lastMonitor' = IF MonitorDue THEN now ELSE lastMonitor
=============================================================================
