-------------------------- MODULE CatalogVariants --------------------------
(***************************************************************************)
(* A product with its variants, options, option values and barcodes.       *)
(* Every command locks the product before anything of it and keeps the lock*)
(* to the end of its transaction, so each is one step here; one that is    *)
(* refused, a version that has changed included, changes nothing.          *)
(*                                                                         *)
(* Services and kits go by the rules of simple products.  Units, costs,    *)
(* tracking of inventory, names and codes are left out; the category and   *)
(* the brand of a product are CatalogReferences' business.                 *)
(***************************************************************************)
EXTENDS Naturals

CONSTANTS Product, Variant, Option, Value, Code,
          OptionOf,         \* the definition each value is of
          None

ASSUME VariantsAssumption ==
  /\ OptionOf \in [Value -> Option]
  /\ None \notin Product \cup Variant

VARIABLES
  product,   \* type and status of each product
  variant,   \* its product, whether it is the default, what it is made of
  option,    \* its product and its status
  value,     \* its status
  barcode    \* the variant each code that is not retired identifies

vars == <<product, variant, option, value, barcode>>

Status == {"active", "inactive", "retired"}

ProductState == [type : {"simple", "variable"},
                 status : Status \cup {"none", "draft"}]

VariantState == [status : Status \cup {"none"}, product : Product \cup {None},
                 default : BOOLEAN, values : SUBSET Value]

OptionState == [status : Status \cup {"none"}, product : Product \cup {None}]

NoVariant == [status |-> "none", product |-> None, default |-> FALSE,
              values |-> {}]

NoBarcode == [variant |-> None, primary |-> FALSE]

Init == /\ product = [x \in Product |-> [type |-> "simple", status |-> "none"]]
        /\ variant = [v \in Variant |-> NoVariant]
        /\ option = [o \in Option |-> [status |-> "none", product |-> None]]
        /\ value = [w \in Value |-> "none"]
        /\ barcode = [k \in Code |-> NoBarcode]

-----------------------------------------------------------------------------
(* The state of a product                                                  *)

Live(status) == status \in {"active", "inactive"}

Alone(S) == \E v \in Variant : S = {v}

(* validateProductVariantState, of the variants as they would be.          *)
LiveVariants(variants, x) ==
  {v \in Variant : variants[v].product = x /\ Live(variants[v].status)}

Defaults(variants, x) == {v \in LiveVariants(variants, x) : variants[v].default}

ActiveDefaults(variants, x) ==
  {v \in Defaults(variants, x) : variants[v].status = "active"}

ValidState(state, variants, x) ==
  /\ state.type # "variable" => Alone(Defaults(variants, x))
  /\ state.type = "variable" /\ state.status = "active" =>
       Alone(ActiveDefaults(variants, x))

(* The unique indexes over the variants of a product that are not retired: *)
(* one default, and no two of the same option signature.                   *)
Unindexed(variants) == TRUE

IndexesHold(variants) ==
  \A u, v \in Variant :
    /\ u # v
    /\ variants[u].product = variants[v].product
    /\ Live(variants[u].status) /\ Live(variants[v].status)
    => /\ ~ (variants[u].default /\ variants[v].default)
       /\ variants[u].values # variants[v].values

(* A code is given to one variant at a time, and a variant has one primary *)
(* barcode.                                                                *)
Identify(k, v, primary) ==
  /\ barcode[k].variant = None
  /\ primary => \A j \in Code : ~ (barcode[j].variant = v /\ barcode[j].primary)
  /\ barcode' = [barcode EXCEPT ![k] = [variant |-> v, primary |-> primary]]

MayIdentify(v) == \/ UNCHANGED barcode
                  \/ \E k \in Code, primary \in BOOLEAN : Identify(k, v, primary)

-----------------------------------------------------------------------------
(* createProduct; a variable product that is not active needs no variant.  *)
CreateProduct(x, type, status, v) ==
  /\ product[x].status = "none"
  /\ status # "retired"
  /\ variant[v].status = "none"
  /\ product' = [product EXCEPT ![x] = [type |-> type, status |-> status]]
  /\ variant' = [variant EXCEPT ![v] = [status |-> "active", product |-> x,
                                        default |-> TRUE, values |-> {}]]
  /\ MayIdentify(v)
  /\ UNCHANGED <<option, value>>

CreateEmptyProduct(x, status) ==
  /\ product[x].status = "none"
  /\ status \notin {"retired", "active"}
  /\ product' = [product EXCEPT ![x] = [type |-> "variable", status |-> status]]
  /\ UNCHANGED <<variant, option, value, barcode>>

(* patchProduct: from any status to any other. *)
PatchProduct(x, status) ==
  /\ product[x].status # "none"
  /\ ValidState([product[x] EXCEPT !.status = status], variant, x)
  /\ product' = [product EXCEPT ![x].status = status]
  /\ UNCHANGED <<variant, option, value, barcode>>

SelectableTwice(x, values) ==
  \A w \in values : /\ value[w] = "active"
                    /\ option[OptionOf[w]] = [status |-> "active", product |-> x]

(* resolveOptionValues: active values of active definitions of the product,*)
(* at most one of each definition.                                         *)
Selectable(x, values) ==
  /\ \A w \in values : /\ value[w] = "active"
                       /\ option[OptionOf[w]] = [status |-> "active", product |-> x]
  /\ \A w, z \in values : OptionOf[w] = OptionOf[z] => w = z

(* createVariant, of a product in any status. *)
CreateVariant(x, v, status, default, values) ==
  /\ product[x].status # "none"
  /\ variant[v].status = "none"
  /\ status # "retired"
  /\ product[x].type # "variable" => values = {}
  /\ Selectable(x, values)
  /\ variant' = [variant EXCEPT ![v] = [status |-> status, product |-> x,
                                        default |-> default, values |-> values]]
  /\ IndexesHold(variant')
  /\ ValidState(product[x], variant', x)
  /\ MayIdentify(v)
  /\ UNCHANGED <<product, option, value>>

(* patchVariant: what it is made of stays; a retired one is no default.    *)
PatchVariant(v, status, default) ==
  LET x == variant[v].product
  IN  /\ variant[v].status # "none"
      /\ variant' = [variant EXCEPT
           ![v].status = status,
           ![v].default = default /\ status # "retired"]
      /\ ValidState(product[x], variant', x)
      /\ IndexesHold(variant')
      /\ UNCHANGED <<product, option, value, barcode>>

-----------------------------------------------------------------------------
(* createOption *)
CreateOption(x, o, status) ==
  /\ product[x].type = "variable"
  /\ product[x].status \notin {"none", "retired"}
  /\ option[o].status = "none"
  /\ status # "retired"
  /\ option' = [option EXCEPT ![o] = [status |-> status, product |-> x]]
  /\ UNCHANGED <<product, variant, value, barcode>>

UsedByDefault(values) ==
  \E v \in Variant : /\ variant[v].status = "active" /\ variant[v].default
                     /\ variant[v].values \cap values # {}

(* hasActiveOptionDependency *)
ActivelyUsed(values) ==
  \E v \in Variant : /\ variant[v].status = "active"
                     /\ variant[v].values \cap values # {}

ValuesOf(o) == {w \in Value : OptionOf[w] = o}

(* patchOption: its values stay as they are. *)
PatchOption(o, status) ==
  /\ option[o].status # "none"
  /\ status = "retired" => ~ ActivelyUsed(ValuesOf(o))
  /\ option' = [option EXCEPT ![o].status = status]
  /\ UNCHANGED <<product, variant, value, barcode>>

(* createValue *)
CreateValue(w, status) ==
  /\ Live(option[OptionOf[w]].status)
  /\ value[w] = "none"
  /\ status # "retired"
  /\ value' = [value EXCEPT ![w] = status]
  /\ UNCHANGED <<product, variant, option, barcode>>

(* patchValue *)
PatchValue(w, status) ==
  /\ value[w] # "none"
  /\ status = "retired" => ~ ActivelyUsed({w})
  /\ value' = [value EXCEPT ![w] = status]
  /\ UNCHANGED <<product, variant, option, barcode>>

(* createBarcode *)
CreateBarcode(k, v, primary) ==
  /\ Live(variant[v].status)
  /\ Identify(k, v, primary)
  /\ UNCHANGED <<product, variant, option, value>>

(* retireBarcode, of a variant in any status; nothing else retires one.    *)
RetireBarcode(k) ==
  /\ barcode[k].variant # None
  /\ barcode' = [barcode EXCEPT ![k] = NoBarcode]
  /\ UNCHANGED <<product, variant, option, value>>

Next ==
  \/ \E x \in Product, status \in Status \cup {"draft"} :
       \/ CreateEmptyProduct(x, status)
       \/ PatchProduct(x, status)
       \/ \E v \in Variant, type \in {"simple", "variable"} :
            CreateProduct(x, type, status, v)
  \/ \E v \in Variant, status \in Status, default \in BOOLEAN :
       \/ PatchVariant(v, status, default)
       \/ \E x \in Product, values \in SUBSET Value :
            CreateVariant(x, v, status, default, values)
  \/ \E o \in Option, status \in Status :
       PatchOption(o, status) \/ \E x \in Product : CreateOption(x, o, status)
  \/ \E w \in Value, status \in Status :
       CreateValue(w, status) \/ PatchValue(w, status)
  \/ \E k \in Code :
       \/ RetireBarcode(k)
       \/ \E v \in Variant, primary \in BOOLEAN : CreateBarcode(k, v, primary)

Spec == Init /\ [][Next]_vars

-----------------------------------------------------------------------------
(* Rows are well formed: a variant is of one product, and made of at most  *)
(* one value of each option of that product; a retired variant is not its  *)
(* product's default; a variant has one primary barcode.                   *)
VariantsTypeOK ==
  /\ product \in [Product -> ProductState]
  /\ variant \in [Variant -> VariantState]
  /\ option \in [Option -> OptionState]
  /\ value \in [Value -> Status \cup {"none"}]
  /\ barcode \in [Code -> [variant : Variant \cup {None}, primary : BOOLEAN]]
  /\ \A v \in Variant :
       /\ variant[v].status \in {"none", "retired"} => ~ variant[v].default
       /\ \A w \in variant[v].values :
            /\ option[OptionOf[w]].product = variant[v].product
            /\ \A z \in variant[v].values : OptionOf[w] = OptionOf[z] => w = z
       /\ \A j, k \in Code :
            /\ barcode[j].variant = v /\ barcode[j].primary
            /\ barcode[k].variant = v /\ barcode[k].primary
            => j = k

(* Whatever is created, changed, retired and taken back, in any order: a   *)
(* product that is not variable is exactly one variant, its default; an    *)
(* active variable product has one default, which is active.               *)
EveryProductHasItsDefault ==
  \A x \in Product :
    product[x].status # "none" =>
      IF product[x].type = "variable"
        THEN product[x].status = "active" =>
               \E v \in Variant : /\ variant[v].status = "active"
                                  /\ Defaults(variant, x) = {v}
        ELSE \E v \in Variant : /\ variant[v].default
                                /\ LiveVariants(variant, x) = {v}

Alive(w) == value[w] # "retired" /\ option[OptionOf[w]].status # "retired"

(* While a variant stays active, none of its values nor their definitions  *)
(* is retired under it.                                                    *)
OptionsOutliveTheirVariants ==
  [][\A v \in Variant : \A w \in variant[v].values :
       variant[v].status = "active" /\ variant'[v].status = "active" /\ Alive(w)
         => Alive(w)']_vars
=============================================================================
