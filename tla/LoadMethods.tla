---------------------------- MODULE LoadMethods ----------------------------
(***************************************************************************)
(* +load methods (objc-loadmethod.mm, prepare_load_methods, load_images    *)
(* and _unload_image).                                                     *)
(*                                                                         *)
(* When an image is loaded its classes and categories with +load methods   *)
(* go to two lists.  The outermost call of call_load_methods takes each    *)
(* list away and calls the methods in it, until both are empty; a +load    *)
(* method may load and unload images, which changes the new lists in the   *)
(* meantime.  Then it pops the autorelease pool it pushed at the start,    *)
(* and the -dealloc methods of the objects in it may do the same.          *)
(* loadMethodLock is recursive and is held throughout.  One step is what a *)
(* thread does between two calls of +load or -dealloc methods.             *)
(***************************************************************************)
EXTENDS Integers, Sequences, SequencesExt, FiniteSets, FiniteSetsExt

CONSTANTS Threads,
          NoThread,
          Images,
          Nil,
          NoClass,       \* the superclass of a root class
          Classes,
          Super,         \* the superclass of each class
          HasLoad,       \* the classes with a +load method
          ClassList,     \* the classes of each image, in order
          CategoryList,  \* its categories with a +load method, in order
          ClassOf,       \* the class each of these belongs to
          PoolLoads,     \* do -dealloc methods of objects in the pool load or unload images?
          MaxCalls,      \* bound: images a +load or -dealloc method loads or unloads
          MaxWaiting,    \* bound: the length of a list when a method loads an image
          Careful        \* does it only unload an image none of whose methods is being waited for?

VARIABLES mapped,      \* the images in memory
          flagged,     \* the classes with RW_LOADED
          classes,     \* loadable_classes
          categories,  \* loadable_categories
          loading,     \* is a call of call_load_methods at work?
          owner,       \* who holds loadMethodLock
          depth,       \* and how many times
          stack,       \* the calls under way in each thread, innermost first
          calls,       \* history: how often each +load method was called
          late         \* history: the images -dealloc methods have loaded since the
                       \* lists were last worked off

lists == <<flagged, classes, categories>>
lock == <<owner, depth>>
vars == <<mapped, lists, loading, lock, stack, calls, late>>

Categories == DOMAIN ClassOf
Items == Classes \cup Categories
Loadable == HasLoad \cup Categories

Contents(image) == ToSet(ClassList[image]) \cup ToSet(CategoryList[image])
ImageOf(item) == CHOOSE image \in Images : item \in Contents(image)

(* The class whose memory an item needs, and the images it needs.          *)
Parent(item) == IF item \in Classes THEN Super[item] ELSE ClassOf[item]
Needs(image) == {ImageOf(Parent(item)) : item \in {i \in Contents(image) : Parent(i) # NoClass}} \ {image}

(* An item is of one image, and listed once.  Each set of classes has one  *)
(* whose superclass is not in it, as chains of superclasses end.           *)
ASSUME LoadMethodsAssumption ==
  /\ NoThread \notin Threads /\ Nil \notin Items /\ NoClass \notin Classes
  /\ Super \in [Classes -> Classes \cup {NoClass}] /\ ClassOf \in [Categories -> Classes]
  /\ Categories \cap Classes = {} /\ HasLoad \subseteq Classes
  /\ \A image \in Images :
       /\ ClassList[image] \in Seq(Classes) /\ CategoryList[image] \in Seq(Categories)
       /\ \A i, j \in DOMAIN CategoryList[image] :
            CategoryList[image][i] = CategoryList[image][j] => i = j
  /\ \A item \in Items : \E image \in Images :
       item \in Contents(image) /\ \A other \in Images : item \in Contents(other) => other = image
  /\ \A S \in (SUBSET Classes) \ {{}} : \E c \in S : Super[c] \notin S
  /\ PoolLoads \in BOOLEAN /\ Careful \in BOOLEAN
  /\ MaxCalls \in Nat /\ MaxWaiting \in Nat

-----------------------------------------------------------------------------
(* A call of load_images, or of a +load or -dealloc method.                *)
Call(label, item) == [at |-> label, item |-> item, todo |-> <<>>, made |-> 0]

Top(t) == Head(stack[t])
At(t, label) == stack[t] # <<>> /\ Top(t).at = label
Replace(t, call) == stack' = [stack EXCEPT ![t] = <<call>> \o Tail(stack[t])]
Goto(t, label) == Replace(t, [Top(t) EXCEPT !.at = label])
Frames == UNION {ToSet(stack[t]) : t \in Threads}

Init ==
  /\ mapped = {} /\ flagged = {}
  /\ classes = <<>> /\ categories = <<>>
  /\ loading = FALSE
  /\ owner = NoThread /\ depth = 0
  /\ stack = [t \in Threads |-> <<>>]
  /\ calls = [item \in Items |-> 0]
  /\ late = {}

(* The program runs in idle threads and in its methods.                    *)
InMethod(t) == At(t, "load") \/ At(t, "dealloc")
Runs(t) == IF stack[t] = <<>> THEN TRUE ELSE InMethod(t) /\ Top(t).made < MaxCalls
Caller(t) ==
  IF stack[t] = <<>> THEN <<>> ELSE <<[Top(t) EXCEPT !.made = Top(t).made + 1]>> \o Tail(stack[t])

-----------------------------------------------------------------------------
(* dyld maps an image, after those it needs, for which it has called       *)
(* load_images, and calls load_images, which returns at once when the      *)
(* image has no +load methods (hasLoadMethods).                            *)
Open(t, image) ==
  /\ Runs(t)
  /\ image \notin mapped /\ Needs(image) \subseteq mapped
  /\ InMethod(t) => Len(classes) <= MaxWaiting /\ Len(categories) <= MaxWaiting
  /\ \A f \in Frames : f.at = "prepare" => f.item \notin Needs(image)
  /\ mapped' = mapped \cup {image}
  /\ stack' = [stack EXCEPT ![t] =
       IF Contents(image) \cap Loadable = {} THEN Caller(t) ELSE <<Call("prepare", image)>> \o Caller(t)]
  /\ late' = IF At(t, "dealloc") THEN late \cup {image} ELSE late
  /\ UNCHANGED <<lists, loading, lock, calls>>

(* schedule_class_load: a class that is not flagged yet is flagged, and    *)
(* listed when it has a +load method, after its superclasses.              *)
Schedule(before) ==
  LET upTo[c \in Classes \cup {NoClass}] ==
        IF c = NoClass \/ c \in before.flagged THEN before
        ELSE [flagged |-> upTo[Super[c]].flagged \cup {c},
              classes |-> upTo[Super[c]].classes \o IF c \in HasLoad THEN <<c>> ELSE <<>>]
  IN  upTo

(* The loop of prepare_load_methods over the classes with a +load method   *)
ScheduleAll(before, list) ==
  LET upTo[n \in 0..Len(list)] ==
        IF n = 0 THEN before
        ELSE IF list[n] \in HasLoad THEN Schedule(upTo[n - 1])[list[n]] ELSE upTo[n - 1]
  IN  upTo[Len(list)]

Prepare(t) ==
  /\ At(t, "prepare") /\ owner \in {NoThread, t}
  /\ owner' = t /\ depth' = depth + 1
  /\ LET after == ScheduleAll([flagged |-> flagged, classes |-> classes], ClassList[Top(t).item]) IN
     /\ flagged' = after.flagged
     /\ classes' = after.classes
  /\ categories' = categories \o CategoryList[Top(t).item]
  /\ Goto(t, "call")
  /\ UNCHANGED <<mapped, loading, calls, late>>

(* Mutant: nested calls work the lists off as well. *)
CallLoadMethods_Nested(t) ==
  /\ At(t, "call")
  /\ loading' = TRUE
  /\ Goto(t, "classes")
  /\ UNCHANGED <<mapped, lists, lock, calls, late>>

(* call_load_methods does nothing when it is at work already.              *)
CallLoadMethods(t) ==
  /\ At(t, "call")
  /\ loading' = TRUE
  /\ Goto(t, IF loading THEN "unlock" ELSE "classes")
  /\ UNCHANGED <<mapped, lists, lock, calls, late>>

(* call_class_loads, as long as there are classes                          *)
DetachClasses(t) ==
  /\ At(t, "classes")
  /\ classes' = <<>>
  /\ IF classes = <<>> THEN Goto(t, "categories")
     ELSE Replace(t, [Top(t) EXCEPT !.at = "class", !.todo = classes])
  /\ UNCHANGED <<mapped, flagged, categories, loading, lock, calls, late>>

(* The next method of a detached list is called, unless its image has been *)
(* unloaded when it was taken from the list.                               *)
CallNext(t) ==
  LET item == Head(Top(t).todo)
      rest == <<[Top(t) EXCEPT !.todo = Tail(Top(t).todo)]>> \o Tail(stack[t]) IN
  /\ Top(t).todo # <<>>
  /\ IF item = Nil THEN stack' = [stack EXCEPT ![t] = rest] /\ UNCHANGED calls
     ELSE /\ stack' = [stack EXCEPT ![t] = <<Call("load", item)>> \o rest]
          /\ calls' = [calls EXCEPT ![item] = @ + 1]
  /\ UNCHANGED <<mapped, lists, loading, lock, late>>

CallClassLoad(t) == At(t, "class") /\ CallNext(t)

(* Mutant: classes that were added meanwhile wait for the categories. *)
EndClassLoads_Once(t) ==
  /\ At(t, "class") /\ Top(t).todo = <<>>
  /\ Goto(t, "categories")
  /\ UNCHANGED <<mapped, lists, loading, lock, calls, late>>

EndClassLoads(t) ==
  /\ At(t, "class") /\ Top(t).todo = <<>>
  /\ Goto(t, "classes")
  /\ UNCHANGED <<mapped, lists, loading, lock, calls, late>>

(* call_category_loads                                                     *)
DetachCategories(t) ==
  /\ At(t, "categories")
  /\ categories' = <<>>
  /\ Replace(t, [Top(t) EXCEPT !.at = "category", !.todo = categories])
  /\ UNCHANGED <<mapped, flagged, classes, loading, lock, calls, late>>

CallCategoryLoad(t) == At(t, "category") /\ CallNext(t)

(* Mutant: it does not begin again for classes. *)
EndCategoryLoads_CategoriesOnly(t) ==
  /\ At(t, "category") /\ Top(t).todo = <<>>
  /\ \/ categories # <<>> /\ Goto(t, "classes") /\ UNCHANGED late
     \/ categories = <<>> /\ Goto(t, "pool") /\ late' = {}
  /\ UNCHANGED <<mapped, lists, loading, lock, calls>>

(* The list has been worked off, as every class is loadable; it begins     *)
(* again when there are classes or new categories.                         *)
EndCategoryLoads(t) ==
  /\ At(t, "category") /\ Top(t).todo = <<>>
  /\ IF classes # <<>> \/ categories # <<>> THEN Goto(t, "classes") /\ UNCHANGED late
     ELSE Goto(t, "pool") /\ late' = {}
  /\ UNCHANGED <<mapped, lists, loading, lock, calls>>

(* objc_autoreleasePoolPop, while loading is still set: an object in the   *)
(* pool is deallocated.                                                    *)
PopPool(t) ==
  /\ At(t, "pool") /\ PoolLoads
  /\ stack' = [stack EXCEPT ![t] = <<Call("dealloc", Top(t).item)>> \o stack[t]]
  /\ UNCHANGED <<mapped, lists, loading, lock, calls, late>>

(* The pool is empty.  The lists are not looked at any more.               *)
EndCallLoadMethods(t) ==
  /\ At(t, "pool")
  /\ loading' = FALSE
  /\ Goto(t, "unlock")
  /\ UNCHANGED <<mapped, lists, lock, calls, late>>

(* load_images returns.                                                    *)
Unlock(t) ==
  /\ At(t, "unlock")
  /\ depth' = depth - 1
  /\ owner' = IF depth = 1 THEN NoThread ELSE t
  /\ stack' = [stack EXCEPT ![t] = Tail(stack[t])]
  /\ UNCHANGED <<mapped, lists, loading, calls, late>>

EndMethod(t) ==
  /\ InMethod(t)
  /\ stack' = [stack EXCEPT ![t] = Tail(stack[t])]
  /\ UNCHANGED <<mapped, lists, loading, lock, calls, late>>

-----------------------------------------------------------------------------
(* Mutant: only the first entry is removed. *)
RemoveFrom_First(list, items) ==
  [i \in DOMAIN list |-> IF i = 1 /\ list[i] \in items THEN Nil ELSE list[i]]

(* remove_class_from_loadable_list and the same for categories             *)
RemoveFrom(list, items) == [i \in DOMAIN list |-> IF list[i] \in items THEN Nil ELSE list[i]]

(* The items in lists that a call has detached.                            *)
Detached == UNION {ToSet(f.todo) : f \in Frames}

(* unmap_image: dyld unloads an image no other needs, and none of whose    *)
(* methods is running.                                                     *)
Close(t, image) ==
  /\ Runs(t)
  /\ image \in mapped
  /\ \A other \in mapped : image \notin Needs(other)
  /\ \A f \in Frames : f.item \notin Contents(image) \cup {image}
  /\ Careful => Contents(image) \cap Detached = {}
  /\ owner \in {NoThread, t}
  /\ mapped' = mapped \ {image}
  /\ flagged' = flagged \ Contents(image)
  /\ classes' = RemoveFrom(classes, Contents(image))
  /\ categories' = RemoveFrom(categories, Contents(image))
  /\ calls' = [item \in Items |-> IF item \in Contents(image) THEN 0 ELSE calls[item]]
  /\ late' = late \ {image}
  /\ stack' = [stack EXCEPT ![t] = Caller(t)]
  /\ UNCHANGED <<loading, lock>>

-----------------------------------------------------------------------------
Next ==
  \E t \in Threads :
    \/ Prepare(t) \/ CallLoadMethods(t) \/ DetachClasses(t) \/ CallClassLoad(t) \/ EndClassLoads(t)
    \/ DetachCategories(t) \/ CallCategoryLoad(t) \/ EndCategoryLoads(t)
    \/ PopPool(t) \/ EndCallLoadMethods(t) \/ Unlock(t) \/ EndMethod(t)
    \/ \E image \in Images : Open(t, image) \/ Close(t, image)

Spec == Init /\ [][Next]_vars

-----------------------------------------------------------------------------
Running == {f \in Frames : f.at = "load"}

(* Type invariant: lists hold items or gaps, the lock has a holder when it *)
(* is held, and the calls of a thread are at known steps.                  *)
TypeOK ==
  /\ mapped \subseteq Images /\ flagged \subseteq Classes
  /\ ToSet(classes) \subseteq Classes \cup {Nil} /\ ToSet(categories) \subseteq Categories \cup {Nil}
  /\ loading \in BOOLEAN
  /\ IF depth = 0 THEN owner = NoThread ELSE owner \in Threads
  /\ calls \in [Items -> Nat] /\ late \subseteq Images
  /\ \A f \in Frames :
       /\ f.at \in {"prepare", "call", "classes", "class", "categories", "category", "pool", "unlock",
                    "load", "dealloc"}
       /\ f.item \in Items \cup Images /\ f.made \in 0..MaxCalls
       /\ ToSet(f.todo) \subseteq Items \cup {Nil}

(* A class and its superclasses                                            *)
Above[c \in Classes \cup {NoClass}] == IF c = NoClass THEN {} ELSE {c} \cup Above[Super[c]]

(* A class receives +load after its superclasses, and a category after its  *)
(* class: also when they are of different images, and when images are      *)
(* loaded by +load methods in the midst of it.                             *)
ParentFirst ==
  \A item \in Loadable : calls[item] > 0 =>
    \A c \in Above[Parent(item)] \cap HasLoad : calls[c] > 0

(* +load methods are called once, and one at a time: not inside of one     *)
(* another when they load images, and not by two threads.                  *)
OnceOneAtATime ==
  /\ \A item \in Items : calls[item] <= 1
  /\ \A t, u \in Threads : \A i \in DOMAIN stack[t], j \in DOMAIN stack[u] :
       stack[t][i].at = "load" /\ stack[u][j].at = "load" => t = u /\ i = j

(* The images that have been prepared                                      *)
Done == {image \in mapped : \A f \in Frames : f.at = "prepare" => f.item # image}

(* None is forgotten: when no thread is at work in load_images, every      *)
(* +load method of every image that has been prepared has been called, but *)
(* for those of images that -dealloc methods have loaded while the last    *)
(* call popped its pool: these wait in the lists for the next call.        *)
NoneForgotten ==
  owner = NoThread =>
    \A image \in Done : \A item \in Contents(image) \cap Loadable :
      \/ calls[item] = 1
      \/ image \in late /\ item \in ToSet(classes) \cup ToSet(categories)

(* "that call will handle all loadable classes, even those generated while *)
(* it was running": there are none that wait.  This is so when no -dealloc *)
(* method of an object in the pool loads an image.                         *)
AllCalled ==
  owner = NoThread =>
    \A image \in Done : \A item \in Contents(image) \cap Loadable : calls[item] = 1

(* A method that is called is in memory: its image has not been unloaded   *)
(* since it was put on a list ("Class cls may have been loadable before,   *)
(* but it is now no longer loadable"), and the lists hold nothing else.    *)
LoadsMapped ==
  /\ TypeOK
  /\ \A f \in Running : ImageOf(f.item) \in mapped
  /\ \A item \in (ToSet(classes) \cup ToSet(categories)) \ {Nil} : ImageOf(item) \in mapped
=============================================================================
