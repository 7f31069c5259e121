--------------------------- MODULE WarehouseLocations ---------------------------
(***************************************************************************)
(* The places of a warehouse: zones, racks in zones, shelves in racks,     *)
(* bins in shelves.  A place is known by a code put together from those of *)
(* its parts, which must be new in the warehouse, and the places are shown *)
(* as a hierarchy.                                                         *)
(***************************************************************************)
EXTENDS MasterData

CONSTANTS
    Characters,     \* the characters of a code, the hyphen "-" among them
    PlaceCodes,     \* codes of zones, racks, shelves and bins: sequences of
                    \* characters, no character at all among them
    HierarchyLimit, \* how many locations the hierarchy reads
    MaxLocations    \* bound: locations

ASSUME LocationConstants ==
    "-" \in Characters /\ PlaceCodes \subseteq Seq(Characters) /\ HierarchyLimit \in Nat /\ MaxLocations \in Nat

VARIABLE
    location  \* the rows of warehouse_locations

-----------------------------------------------------------------------------
(* Places.  A part that is not given is None.                              *)

Place == [zone : PlaceCodes \ {<<>>}, rack : PlaceCodes \union {None},
          shelf : PlaceCodes \union {None}, bin : PlaceCodes \union {None}]

Location == [warehouse : Ids, place : Place, code : Seq(Characters), active : BOOLEAN]

LocationCall == [op : {"locate"}, warehouse : Ids, place : Place, refs : {{}}]

LocationTypeOK == location \in SUBSET Location

\* What the code takes for given: neither undefined nor the empty string.
IsGiven(part) == part \notin {None, <<>>}

ValidHierarchy(p) ==
    /\ IsGiven(p.bin) => IsGiven(p.shelf)
    /\ IsGiven(p.shelf) => IsGiven(p.rack)

Suffix(part) == IF IsGiven(part) THEN <<"-">> \o part ELSE <<>>
BuildLocationCode(p) == p.zone \o Suffix(p.rack) \o Suffix(p.shelf) \o Suffix(p.bin)

LocationsOf(w) == {l \in location : l.warehouse = w}
ExistsByCode(w, code) == \E l \in LocationsOf(w) : l.code = code

-----------------------------------------------------------------------------
(* createLocation: check, then write under the unique key.  The warehouse  *)
(* must exist, which its foreign key sees to, but need not be active.      *)

CreateLocation(r, w, p) ==
    /\ Cardinality(location) + Cardinality({q \in Requests : At(q, "locate")}) < MaxLocations
    /\ ValidHierarchy(p)
    /\ ~ ExistsByCode(w, BuildLocationCode(p))
    /\ Begin(r, [op |-> "locate", warehouse |-> w, place |-> p, refs |-> {}])
    /\ UNCHANGED <<masterVars, location>>

\* The CHECK constraints of the table ask for the columns that are not null, and
\* take an empty rack or shelf for one.
ChecksHold(p) ==
    /\ p.shelf # None => p.rack # None
    /\ p.bin # None => p.shelf # None

InsertLocation(r) ==
    /\ At(r, "locate")
    /\ LET w    == call[r].warehouse
           p    == call[r].place
           code == BuildLocationCode(p)
       IN  location' = IF Exists("warehouses", w) /\ ~ ExistsByCode(w, code) /\ ChecksHold(p)
                         THEN location \union {[warehouse |-> w, place |-> p, code |-> code, active |-> TRUE]}
                         ELSE location
    /\ Finish(r)
    /\ UNCHANGED <<masterVars, overtaken>>

\* updateLocationStatus: locations are never deleted.
UpdateLocationStatus(l, active) ==
    /\ location' = (location \ {l}) \union {[l EXCEPT !.active = active]}
    /\ UNCHANGED <<masterVars, call, overtaken>>

-----------------------------------------------------------------------------
(* buildHierarchy: the locations grouped by zone, rack and shelf.          *)

RackGroupWithoutRackOnly(locs, rack) ==
    LET here == {l \in locs : l.place.rack = rack}
    IN  [rack |-> rack, only |-> {}, shelves |->
           {[shelf |-> s,
             only  |-> {l \in here : l.place.shelf = s /\ l.place.bin = None},
             bins  |-> {l \in here : l.place.shelf = s /\ l.place.bin # None}]
              : s \in {l.place.shelf : l \in here} \ {None}}]
RackGroup(locs, rack) ==
    LET here == {l \in locs : l.place.rack = rack}
    IN  [rack |-> rack, only |-> {l \in here : l.place.shelf = None}, shelves |->
           {[shelf |-> s,
             only  |-> {l \in here : l.place.shelf = s /\ l.place.bin = None},
             bins  |-> {l \in here : l.place.shelf = s /\ l.place.bin # None}]
              : s \in {l.place.shelf : l \in here} \ {None}}]

ZoneGroup(locs, zone) ==
    LET here == {l \in locs : l.place.zone = zone}
    IN  [zone |-> zone, only |-> {l \in here : l.place.rack = None},
         racks |-> {RackGroup(here, rack) : rack \in {l.place.rack : l \in here} \ {None}}]

\* At most HierarchyLimit locations are read; which, when there are more, is
\* a matter of their order.
ReadForHierarchy(w) ==
    IF Cardinality(LocationsOf(w)) <= HierarchyLimit
      THEN LocationsOf(w)
      ELSE CHOOSE locs \in SUBSET LocationsOf(w) : Cardinality(locs) = HierarchyLimit

Hierarchy(w) ==
    LET locs == ReadForHierarchy(w)
    IN  [zones |-> {ZoneGroup(locs, z) : z \in {l.place.zone : l \in locs}},
         total |-> Cardinality(locs),
         active |-> Cardinality({l \in locs : l.active})]

-----------------------------------------------------------------------------
(* Properties.                                                             *)

\* The lists of locations that a hierarchy shows.
ShownLists(h) ==
    UNION {{<<z.zone, z.only>>}
             \union UNION {{<<z.zone, g.rack, g.only>>}
                             \union {<<z.zone, g.rack, s.shelf, s.only>> : s \in g.shelves}
                             \union {<<z.zone, g.rack, s.shelf, "bins", s.bins>> : s \in g.shelves}
                           : g \in z.racks}
           : z \in h.zones}

\* The hierarchy of a warehouse shows every location exactly once, also those
\* that are a whole zone, rack or shelf and those whose rack is the empty
\* string, and leaves one out only beyond HierarchyLimit.
HierarchyComplete ==
    \A w \in {l.warehouse : l \in location} :
        LET lists == ShownLists(Hierarchy(w))
            shown == UNION {Last(s) : s \in lists}
        IN  /\ \A l \in shown : Cardinality({s \in lists : l \in Last(s)}) = 1
            /\ Cardinality(LocationsOf(w)) <= HierarchyLimit => shown = LocationsOf(w)
            /\ Hierarchy(w).total = Cardinality(shown)
=============================================================================
