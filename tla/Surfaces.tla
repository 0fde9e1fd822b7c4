------------------------------ MODULE Surfaces ------------------------------
(***************************************************************************)
(* Textures and what refers to them without owning them: the descriptor    *)
(* sets GuiRenderer keeps by a texture's address, and the frames the GPU   *)
(* has been given and not finished.  A texture is an object at an address  *)
(* (Texture.cpp); the image in it has a revision no other image ever had.  *)
(* Addresses are reused.  Every operation is a function of a record        *)
(*                                                                         *)
(*   alive    what stands at each address, Gone where nothing does         *)
(*   built    the last revision given out                                  *)
(*   sets     the revision the cached set of an address describes, or 0    *)
(*   pool     the descriptor sets left to allocate                         *)
(*   retired  textures given to rendeerRetireTexture                       *)
(*   flight   the frames submitted, oldest first, with what they read      *)
(***************************************************************************)
EXTENDS Naturals, Sequences, FiniteSets

CONSTANTS
  Addresses,           \* where textures are allocated, lowest first
  MaxSets              \* kMaxImageSets

ASSUME SurfacesAssumption ==
  /\ Addresses \subseteq Nat \ {0}
  /\ MaxSets \in Nat

(* Memory does not run out: there is room for what the program holds at    *)
(* once, which is two streams' textures, the registry's image, two of the  *)
(* <image>'s, four that are to go at the top of the next frame, and the one*)
(* in the making.                                                          *)
ASSUME RoomAssumption == IsFiniteSet(Addresses) /\ Cardinality(Addresses) >= 10

Null == 0
Gone == [rev |-> 0, of |-> ""]

NewSurfaces ==
  [alive |-> [a \in Addresses |-> Gone], built |-> 0,
   sets |-> [a \in Addresses |-> 0], pool |-> MaxSets,
   retired |-> {}, flight |-> <<>>]

IsAlive(g, a) == a # Null /\ g.alive[a] # Gone
Revision(g, a) == IF a = Null THEN 0 ELSE g.alive[a].rev
InFlight(g) == UNION {g.flight[i].reads : i \in DOMAIN g.flight}
Images(g) == {g.alive[a].rev : a \in Addresses} \ {0}

(* The address the allocator gives out next. *)
NextAddress(g) ==
  CHOOSE a \in Addresses :
    g.alive[a] = Gone /\ \A b \in Addresses : g.alive[b] = Gone => a <= b

(* Texture::create: a complete image, and only then a revision. *)
Create(g, of) ==
  [g EXCEPT !.alive[NextAddress(g)] = [rev |-> g.built + 1, of |-> of],
            !.built = @ + 1]

(* Texture::~Texture. *)
DestroyAt(g, a) == IF a = Null THEN g ELSE [g EXCEPT !.alive[a] = Gone]

(* vkDeviceWaitIdle, and what immediateSubmit ends with. *)
WaitIdle(g) == [g EXCEPT !.flight = <<>>]

(* Texture::fromPixels: created, and filled through immediateSubmit.       *)
FromPixels(g, of) == WaitIdle(Create(g, of))

(* GuiRenderer::forgetTexture. *)
ForgetTexture(g, a) ==
  IF g.sets[a] = 0 THEN g ELSE [g EXCEPT !.sets[a] = 0, !.pool = @ + 1]

(* rendeerRetireTexture. *)
RetireTexture(g, a) == IF a = Null THEN g ELSE [g EXCEPT !.retired = @ \cup {a}]

(* drainRetiredTextures, at the top of a frame.                            *)
DrainRetired(g) ==
  IF g.retired = {} THEN g
  ELSE LET idle == WaitIdle(g) IN
       [idle EXCEPT
          !.alive = [a \in Addresses |-> IF a \in g.retired THEN Gone ELSE @[a]],
          !.pool = @ + Cardinality({a \in g.retired : g.sets[a] # 0}),
          !.sets = [a \in Addresses |-> IF a \in g.retired THEN 0 ELSE @[a]],
          !.retired = {}]

(* Mutant: a cached set is taken by its address. *)
ImageSetByAddress(g, a) ==
  IF ~IsAlive(g, a) \/ g.sets[a] # 0 \/ g.pool = 0 THEN g
  ELSE [g EXCEPT !.sets[a] = Revision(g, a), !.pool = @ - 1]

(* GuiRenderer::imageSetFor, for a command that draws the texture at a: a  *)
(* set that is stale leaves the cache and is not freed.                    *)
ImageSetFor(g, a) ==
  IF ~IsAlive(g, a) \/ g.sets[a] = Revision(g, a) THEN g
  ELSE IF g.pool = 0 THEN [g EXCEPT !.sets[a] = 0]
  ELSE [g EXCEPT !.sets[a] = Revision(g, a), !.pool = @ - 1]
=============================================================================
