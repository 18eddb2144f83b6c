----------------------- MODULE CatalogVariantsProofs -----------------------
(***************************************************************************)
(* What holds of products and variants whatever the sets of products,      *)
(* variants, options, values and codes are.                                *)
(***************************************************************************)
EXTENDS CatalogVariants, TLAPS

(* A variant, or an option, that is not there is of no product; one that is*)
(* there is of a product that is; and what is not a variable product has   *)
(* variants that are made of nothing.                                      *)
Anchored ==
  /\ \A v \in Variant : variant[v].status = "none" =>
       variant[v].product = None /\ variant[v].values = {}
  /\ \A o \in Option : option[o].status = "none" => option[o].product = None
  /\ \A v \in Variant : variant[v].status # "none" =>
       /\ variant[v].product \in Product
       /\ product[variant[v].product].status # "none"
       /\ product[variant[v].product].type # "variable" =>
            variant[v].values = {}


(* The parts of the type invariant, by name.                               *)
RowsTyped ==
  /\ product \in [Product -> ProductState]
  /\ variant \in [Variant -> VariantState]
  /\ option \in [Option -> OptionState]
  /\ value \in [Value -> Status \cup {"none"}]
  /\ barcode \in [Code -> [variant : Variant \cup {None}, primary : BOOLEAN]]

RetiredIsNoDefault ==
  \A v \in Variant :
    variant[v].status \in {"none", "retired"} => ~ variant[v].default

OwnOptions ==
  \A v \in Variant : \A w \in variant[v].values :
    /\ option[OptionOf[w]].product = variant[v].product
    /\ \A z \in variant[v].values : OptionOf[w] = OptionOf[z] => w = z

OnePrimary ==
  \A v \in Variant : \A j, k \in Code :
    /\ barcode[j].variant = v /\ barcode[j].primary
    /\ barcode[k].variant = v /\ barcode[k].primary
    => j = k

(* The inductive invariant: the indexes are what makes one default of at   *)
(* least one, and one live variant of a product without options.           *)
CatalogInv == /\ RowsTyped /\ RetiredIsNoDefault /\ OwnOptions /\ OnePrimary
              /\ Anchored
              /\ IndexesHold(variant)
              /\ EveryProductHasItsDefault

LEMMA TypeParts == VariantsTypeOK <=>
                     RowsTyped /\ RetiredIsNoDefault /\ OwnOptions /\ OnePrimary
  BY DEF VariantsTypeOK, RowsTyped, RetiredIsNoDefault, OwnOptions, OnePrimary

-----------------------------------------------------------------------------
(* Default variants.  validateProductVariantState sees to it that there is *)
(* one, and the unique indexes that there is no other.                     *)

(* What EveryProductHasItsDefault says of one product.                     *)
HasItsDefault(state, variants, x) ==
  IF state.type = "variable"
    THEN state.status = "active" =>
           \E v \in Variant : /\ variants[v].status = "active"
                              /\ Defaults(variants, x) = {v}
    ELSE \E v \in Variant : /\ variants[v].default
                            /\ LiveVariants(variants, x) = {v}

LEMMA ValidHasItsDefault ==
  ASSUME NEW state, NEW variants, NEW x,
         ValidState(state, variants, x), IndexesHold(variants),
         state.type # "variable" =>
           \A v \in Variant : variants[v].product = x => variants[v].values = {}
  PROVE  HasItsDefault(state, variants, x)
<1>1. CASE state.type = "variable"
  <2>1. SUFFICES ASSUME state.status = "active"
                 PROVE  \E v \in Variant : /\ variants[v].status = "active"
                                           /\ Defaults(variants, x) = {v}
    BY <1>1 DEF HasItsDefault
  <2>2. PICK v \in Variant : ActiveDefaults(variants, x) = {v}
    BY <1>1, <2>1 DEF ValidState, Alone
  <2>3. v \in Defaults(variants, x) /\ variants[v].status = "active"
    BY <2>2 DEF ActiveDefaults
  <2>4. ASSUME NEW u \in Defaults(variants, x) PROVE u = v
    BY <2>3 DEF Defaults, LiveVariants, IndexesHold
  <2>5. Defaults(variants, x) = {v}
    BY <2>3, <2>4
  <2> QED BY <2>3, <2>5
<1>2. CASE state.type # "variable"
  <2>1. PICK v \in Variant : Defaults(variants, x) = {v}
    BY <1>2 DEF ValidState, Alone
  <2>2. v \in LiveVariants(variants, x) /\ variants[v].default
    BY <2>1 DEF Defaults
  <2>3. ASSUME NEW u \in LiveVariants(variants, x) PROVE u = v
    BY <1>2, <2>2 DEF LiveVariants, IndexesHold
  <2>4. LiveVariants(variants, x) = {v}
    BY <2>2, <2>3
  <2> QED BY <1>2, <2>2, <2>4 DEF HasItsDefault
<1> QED BY <1>1, <1>2

(* The variants of other products do not matter.                           *)
LEMMA DefaultIsLocal ==
  ASSUME NEW state, NEW before, NEW after, NEW x,
         HasItsDefault(state, before, x),
         \A v \in Variant :
           \/ after[v] = before[v]
           \/ /\ before[v].product # x \/ ~ Live(before[v].status)
              /\ after[v].product # x \/ ~ Live(after[v].status)
  PROVE  HasItsDefault(state, after, x)
<1>1. LiveVariants(after, x) = LiveVariants(before, x)
  BY DEF LiveVariants
<1>2. \A v \in LiveVariants(before, x) : after[v] = before[v]
  BY DEF LiveVariants
<1>3. Defaults(after, x) = Defaults(before, x)
  BY <1>1, <1>2 DEF Defaults
<1>4. CASE state.type = "variable"
  <2>1. SUFFICES ASSUME state.status = "active"
                 PROVE  \E v \in Variant : /\ after[v].status = "active"
                                           /\ Defaults(after, x) = {v}
    BY <1>4 DEF HasItsDefault
  <2>2. PICK v \in Variant : before[v].status = "active" /\ Defaults(before, x) = {v}
    BY <1>4, <2>1 DEF HasItsDefault
  <2>3. after[v].status = "active"
    BY <1>2, <2>2 DEF Defaults
  <2> QED BY <1>3, <2>2, <2>3
<1>5. CASE state.type # "variable"
  <2>1. PICK v \in Variant : before[v].default /\ LiveVariants(before, x) = {v}
    BY <1>5 DEF HasItsDefault
  <2>2. after[v].default
    BY <1>2, <2>1
  <2> QED BY <1>1, <1>5, <2>1, <2>2 DEF HasItsDefault
<1> QED BY <1>4, <1>5

LEMMA DefaultsByProduct ==
  EveryProductHasItsDefault <=>
    \A x \in Product : product[x].status # "none" =>
                          HasItsDefault(product[x], variant, x)
  BY DEF EveryProductHasItsDefault, HasItsDefault

-----------------------------------------------------------------------------
(* Barcodes                                                                *)

LEMMA IdentifyKeepsOnePrimary ==
  ASSUME CatalogInv, NEW v \in Variant, MayIdentify(v)
  PROVE  /\ barcode' \in [Code -> [variant : Variant \cup {None},
                                   primary : BOOLEAN]]
         /\ OnePrimary'
<1>1. CASE UNCHANGED barcode
  BY <1>1 DEF CatalogInv, RowsTyped, OnePrimary
<1>2. ASSUME NEW k \in Code, NEW primary \in BOOLEAN, Identify(k, v, primary)
      PROVE  /\ barcode' \in [Code -> [variant : Variant \cup {None},
                                       primary : BOOLEAN]]
             /\ OnePrimary'
  <2>1. /\ barcode' \in [Code -> [variant : Variant \cup {None},
                                  primary : BOOLEAN]]
        /\ barcode'[k] = [variant |-> v, primary |-> primary]
        /\ \A j \in Code : j # k => barcode'[j] = barcode[j]
    BY <1>2 DEF CatalogInv, RowsTyped, Identify
  <2>2. primary =>
          \A j \in Code : ~ (barcode[j].variant = v /\ barcode[j].primary)
    BY <1>2 DEF Identify
  <2>3. SUFFICES ASSUME NEW u \in Variant, NEW i \in Code, NEW j \in Code,
                        barcode'[i].variant = u, barcode'[i].primary,
                        barcode'[j].variant = u, barcode'[j].primary
                 PROVE  i = j
    BY <2>1 DEF OnePrimary
  <2>4. CASE i # k /\ j # k
    BY <2>1, <2>3, <2>4 DEF CatalogInv, OnePrimary
  <2>5. CASE i = k /\ j # k
    BY <2>1, <2>2, <2>3, <2>5
  <2>6. CASE i # k /\ j = k
    BY <2>1, <2>2, <2>3, <2>6
  <2> QED BY <2>4, <2>5, <2>6
<1> QED BY <1>1, <1>2 DEF MayIdentify

(* Barcodes, and the values of options, are no part of the rest.           *)
LEMMA RowsUntouched ==
  ASSUME CatalogInv, UNCHANGED <<product, variant, option>>,
         value' \in [Value -> Status \cup {"none"}],
         barcode' \in [Code -> [variant : Variant \cup {None},
                               primary : BOOLEAN]],
         OnePrimary'
  PROVE  CatalogInv'
<1>1. RowsTyped'
  BY DEF CatalogInv, RowsTyped
<1>2. RetiredIsNoDefault' /\ OwnOptions' /\ Anchored'
  BY DEF CatalogInv, RetiredIsNoDefault, OwnOptions, Anchored
<1>3. (IndexesHold(variant))'
  BY DEF CatalogInv, IndexesHold
<1>4. EveryProductHasItsDefault'
  BY DEF CatalogInv, EveryProductHasItsDefault, Defaults, LiveVariants
<1> QED BY <1>1, <1>2, <1>3, <1>4 DEF CatalogInv

LEMMA CreateBarcodePreserves ==
  ASSUME CatalogInv, NEW k \in Code, NEW v \in Variant,
         NEW primary \in BOOLEAN, CreateBarcode(k, v, primary)
  PROVE  CatalogInv'
<1>1. MayIdentify(v)
  BY DEF CreateBarcode, MayIdentify
<1>2. value' \in [Value -> Status \cup {"none"}]
  BY DEF CreateBarcode, CatalogInv, RowsTyped
<1> QED BY <1>1, <1>2, IdentifyKeepsOnePrimary, RowsUntouched DEF CreateBarcode

LEMMA RetireBarcodePreserves ==
  ASSUME CatalogInv, NEW k \in Code, RetireBarcode(k)
  PROVE  CatalogInv'
<1>1. /\ barcode' \in [Code -> [variant : Variant \cup {None},
                                primary : BOOLEAN]]
      /\ ~ barcode'[k].primary
      /\ \A j \in Code : j # k => barcode'[j] = barcode[j]
  BY DEF RetireBarcode, NoBarcode, CatalogInv, RowsTyped
<1>2. OnePrimary'
  BY <1>1 DEF CatalogInv, OnePrimary
<1>3. value' \in [Value -> Status \cup {"none"}]
  BY DEF RetireBarcode, CatalogInv, RowsTyped
<1> QED BY <1>1, <1>2, <1>3, RowsUntouched DEF RetireBarcode

LEMMA ValuesPreserve ==
  ASSUME CatalogInv, NEW w \in Value, NEW status \in Status,
         CreateValue(w, status) \/ PatchValue(w, status)
  PROVE  CatalogInv'
<1>1. value' \in [Value -> Status \cup {"none"}]
  BY DEF CreateValue, PatchValue, CatalogInv, RowsTyped
<1>2. barcode' = barcode /\ UNCHANGED <<product, variant, option>>
  BY DEF CreateValue, PatchValue
<1>3. OnePrimary'
  BY <1>2 DEF CatalogInv, OnePrimary
<1> QED BY <1>1, <1>2, <1>3, RowsUntouched DEF CatalogInv, RowsTyped

-----------------------------------------------------------------------------
(* Options                                                                 *)

(* No variant is made of a value whose option is not there yet, so no      *)
(* option comes to be of another product than its variants are.            *)
LEMMA OptionsPreserve ==
  ASSUME CatalogInv, VariantsAssumption, UNCHANGED <<product, variant, value, barcode>>,
         option' \in [Option -> OptionState],
         \A o \in Option : /\ \/ option[o].status = "none"
                              \/ option'[o].product = option[o].product
                           /\ option'[o].status = "none" =>
                                option'[o].product = None
  PROVE  CatalogInv'
<1>1. RowsTyped' /\ RetiredIsNoDefault' /\ OnePrimary'
  BY DEF CatalogInv, RowsTyped, RetiredIsNoDefault, OnePrimary
<1>2. OwnOptions'
  <2>1. SUFFICES ASSUME NEW v \in Variant, NEW w \in variant[v].values
                 PROVE  option'[OptionOf[w]].product = variant[v].product
    BY DEF OwnOptions, CatalogInv
  <2>2. variant[v] \in VariantState
    BY DEF CatalogInv, RowsTyped
  <2>3. w \in Value /\ OptionOf[w] \in Option
    BY <2>1, <2>2, VariantsAssumption DEF VariantState, VariantsAssumption
  <2>4. option[OptionOf[w]].product = variant[v].product
    BY <2>1 DEF CatalogInv, OwnOptions
  <2>5. variant[v].product \in Product
    BY <2>1 DEF CatalogInv, Anchored
  <2>6. option[OptionOf[w]].status # "none"
    BY <2>3, <2>4, <2>5, VariantsAssumption
       DEF CatalogInv, Anchored, VariantsAssumption
  <2> QED BY <2>3, <2>4, <2>6
<1>3. Anchored'
  BY DEF CatalogInv, Anchored
<1>4. (IndexesHold(variant))'
  BY DEF CatalogInv, IndexesHold
<1>5. EveryProductHasItsDefault'
  BY DEF CatalogInv, EveryProductHasItsDefault, Defaults, LiveVariants
<1> QED BY <1>1, <1>2, <1>3, <1>4, <1>5 DEF CatalogInv

LEMMA CreateOptionPreserves ==
  ASSUME CatalogInv, VariantsAssumption, NEW x \in Product, NEW o \in Option,
         NEW status \in Status, CreateOption(x, o, status)
  PROVE  CatalogInv'
<1>1. /\ option' \in [Option -> OptionState]
      /\ option[o].status = "none" /\ option'[o].status = status
      /\ \A p \in Option : p # o => option'[p] = option[p]
  BY DEF CreateOption, CatalogInv, RowsTyped, OptionState
<1>2. \A p \in Option : /\ \/ option[p].status = "none"
                            \/ option'[p].product = option[p].product
                         /\ option'[p].status = "none" =>
                              option'[p].product = None
  BY <1>1 DEF CatalogInv, Anchored, Status
<1> QED BY <1>1, <1>2, OptionsPreserve DEF CreateOption

LEMMA PatchOptionPreserves ==
  ASSUME CatalogInv, VariantsAssumption, NEW o \in Option,
         NEW status \in Status, PatchOption(o, status)
  PROVE  CatalogInv'
<1>1. /\ option' \in [Option -> OptionState]
      /\ option'[o].status = status /\ option'[o].product = option[o].product
      /\ \A p \in Option : p # o => option'[p] = option[p]
  BY DEF PatchOption, CatalogInv, RowsTyped, OptionState
<1>2. \A p \in Option : /\ \/ option[p].status = "none"
                            \/ option'[p].product = option[p].product
                         /\ option'[p].status = "none" =>
                              option'[p].product = None
  BY <1>1 DEF CatalogInv, Anchored, Status
<1> QED BY <1>1, <1>2, OptionsPreserve DEF PatchOption

-----------------------------------------------------------------------------
(* Products and variants                                                   *)

(* What a product that a command has validated needs.                      *)
LEMMA ProductsOfNothing ==
  ASSUME Anchored, NEW x \in Product, product[x].status # "none",
         product[x].type # "variable", NEW v \in Variant,
         variant[v].product = x, VariantsAssumption
  PROVE  variant[v].values = {}
  BY DEF Anchored, VariantsAssumption

LEMMA PatchProductPreserves ==
  ASSUME CatalogInv, VariantsAssumption, NEW x \in Product,
         NEW status \in Status \cup {"draft"}, PatchProduct(x, status)
  PROVE  CatalogInv'
<1> DEFINE state == [product[x] EXCEPT !.status = status]
<1>1. /\ product' \in [Product -> ProductState]
      /\ product'[x] = state /\ state.type = product[x].type
      /\ product'[x].status # "none"
      /\ \A y \in Product : y # x => product'[y] = product[y]
  BY DEF PatchProduct, CatalogInv, RowsTyped, ProductState, Status
<1>2. UNCHANGED <<variant, option, value, barcode>>
  BY DEF PatchProduct
<1>3. RowsTyped' /\ RetiredIsNoDefault' /\ OwnOptions' /\ OnePrimary'
  BY <1>1, <1>2 DEF CatalogInv, RowsTyped, RetiredIsNoDefault, OwnOptions,
                    OnePrimary
<1>4. Anchored'
  <2>1. \A y \in Product : /\ product'[y].type = product[y].type
                           /\ product[y].status # "none" =>
                                product'[y].status # "none"
    BY <1>1
  <2> QED BY <1>2, <2>1 DEF CatalogInv, Anchored
<1>5. (IndexesHold(variant))'
  BY <1>2 DEF CatalogInv, IndexesHold
<1>6. EveryProductHasItsDefault'
  <2>1. HasItsDefault(state, variant, x)
    <3>1. ValidState(state, variant, x) /\ product[x].status # "none"
      BY DEF PatchProduct
    <3>2. ASSUME state.type # "variable", NEW v \in Variant,
                 variant[v].product = x
          PROVE  variant[v].values = {}
      BY <1>1, <3>1, <3>2, ProductsOfNothing DEF CatalogInv
    <3> HIDE DEF state
    <3> QED BY <3>1, <3>2, ValidHasItsDefault DEF CatalogInv
  <2>2. \A y \in Product : product'[y].status # "none" =>
                              HasItsDefault(product'[y], variant, y)
    BY <1>1, <2>1, DefaultsByProduct DEF CatalogInv
  <2> QED BY <1>2, <2>2 DEF EveryProductHasItsDefault, HasItsDefault
<1> QED BY <1>3, <1>4, <1>5, <1>6 DEF CatalogInv

LEMMA CreateEmptyProductPreserves ==
  ASSUME CatalogInv, VariantsAssumption, NEW x \in Product,
         NEW status \in Status \cup {"draft"}, CreateEmptyProduct(x, status)
  PROVE  CatalogInv'
<1>1. /\ product' \in [Product -> ProductState]
      /\ product[x].status = "none"
      /\ product'[x].type = "variable" /\ product'[x].status # "active"
      /\ \A y \in Product : y # x => product'[y] = product[y]
  BY DEF CreateEmptyProduct, CatalogInv, RowsTyped, ProductState, Status
<1>2. UNCHANGED <<variant, option, value, barcode>>
  BY DEF CreateEmptyProduct
<1>3. RowsTyped' /\ RetiredIsNoDefault' /\ OwnOptions' /\ OnePrimary'
  BY <1>1, <1>2 DEF CatalogInv, RowsTyped, RetiredIsNoDefault, OwnOptions,
                    OnePrimary
<1>4. Anchored'
  BY <1>1, <1>2 DEF CatalogInv, Anchored
<1>5. (IndexesHold(variant))'
  BY <1>2 DEF CatalogInv, IndexesHold
<1>6. EveryProductHasItsDefault'
  <2>1. HasItsDefault(product'[x], variant, x)
    BY <1>1 DEF HasItsDefault
  <2>2. \A y \in Product : product'[y].status # "none" =>
                              HasItsDefault(product'[y], variant, y)
    BY <1>1, <2>1, DefaultsByProduct DEF CatalogInv
  <2> QED BY <1>2, <2>2 DEF EveryProductHasItsDefault, HasItsDefault
<1> QED BY <1>3, <1>4, <1>5, <1>6 DEF CatalogInv

LEMMA CreateProductPreserves ==
  ASSUME CatalogInv, VariantsAssumption, NEW x \in Product,
         NEW type \in {"simple", "variable"},
         NEW status \in Status \cup {"draft"}, NEW v \in Variant,
         CreateProduct(x, type, status, v)
  PROVE  CatalogInv'
<1>1. /\ product' \in [Product -> ProductState]
      /\ product[x].status = "none"
      /\ product'[x].type = type /\ product'[x].status # "none"
      /\ \A y \in Product : y # x => product'[y] = product[y]
  BY DEF CreateProduct, CatalogInv, RowsTyped, ProductState, Status
<1>2. /\ variant' \in [Variant -> VariantState]
      /\ variant[v].status = "none"
      /\ variant'[v] = [status |-> "active", product |-> x,
                        default |-> TRUE, values |-> {}]
      /\ \A u \in Variant : u # v => variant'[u] = variant[u]
  BY DEF CreateProduct, CatalogInv, RowsTyped, VariantState, Status
<1>3. UNCHANGED <<option, value>> /\ MayIdentify(v)
  BY DEF CreateProduct
<1>4. \A u \in Variant : variant[u].product # x
  BY <1>1, VariantsAssumption DEF CatalogInv, Anchored, VariantsAssumption
<1>5. RowsTyped' /\ OnePrimary'
  BY <1>1, <1>2, <1>3, IdentifyKeepsOnePrimary DEF CatalogInv, RowsTyped
<1>6. RetiredIsNoDefault'
  BY <1>2 DEF CatalogInv, RetiredIsNoDefault
<1>7. OwnOptions'
  BY <1>2, <1>3 DEF CatalogInv, OwnOptions
<1>8. Anchored'
  <2>1. ASSUME NEW u \in Variant, variant'[u].status = "none"
        PROVE  variant'[u].product = None /\ variant'[u].values = {}
    BY <1>2, <2>1 DEF CatalogInv, Anchored
  <2>2. ASSUME NEW o \in Option, option'[o].status = "none"
        PROVE  option'[o].product = None
    BY <1>3, <2>2 DEF CatalogInv, Anchored
  <2>3. ASSUME NEW u \in Variant, variant'[u].status # "none"
        PROVE  /\ variant'[u].product \in Product
               /\ product'[variant'[u].product].status # "none"
               /\ product'[variant'[u].product].type # "variable" =>
                    variant'[u].values = {}
    <3>1. CASE u = v
      BY <1>1, <1>2, <3>1
    <3>2. CASE u # v
      BY <1>1, <1>2, <1>4, <2>3, <3>2 DEF CatalogInv, Anchored
    <3> QED BY <3>1, <3>2
  <2> QED BY <2>1, <2>2, <2>3 DEF Anchored
<1>9. (IndexesHold(variant))'
  <2>1. SUFFICES ASSUME NEW u \in Variant, NEW w \in Variant, u # w,
                        variant'[u].product = variant'[w].product,
                        Live(variant'[u].status), Live(variant'[w].status)
                 PROVE  /\ ~ (variant'[u].default /\ variant'[w].default)
                        /\ variant'[u].values # variant'[w].values
    BY DEF IndexesHold
  <2>2. u # v /\ w # v
    BY <1>2, <1>4, <2>1
  <2> QED BY <1>2, <2>1, <2>2 DEF CatalogInv, IndexesHold
<1>10. EveryProductHasItsDefault'
  <2>1. LiveVariants(variant', x) = {v} /\ Defaults(variant', x) = {v}
    BY <1>2, <1>4 DEF LiveVariants, Defaults, Live
  <2>2. HasItsDefault(product'[x], variant', x)
    BY <1>2, <2>1 DEF HasItsDefault
  <2>3. ASSUME NEW y \in Product, y # x, product[y].status # "none"
        PROVE  HasItsDefault(product[y], variant', y)
    <3>1. HasItsDefault(product[y], variant, y)
      BY <2>3, DefaultsByProduct DEF CatalogInv
    <3>2. ~ Live(variant[v].status) /\ variant'[v].product # y
      BY <1>2, <2>3 DEF Live
    <3> QED BY <1>2, <3>1, <3>2, DefaultIsLocal
  <2>4. \A y \in Product : product'[y].status # "none" =>
                              HasItsDefault(product'[y], variant', y)
    BY <1>1, <2>2, <2>3
  <2> QED BY <2>4 DEF EveryProductHasItsDefault, HasItsDefault
<1> QED BY <1>5, <1>6, <1>7, <1>8, <1>9, <1>10 DEF CatalogInv

(* A variant written under the lock of its product, after the checks of    *)
(* the product as it would be.                                             *)
LEMMA OneVariantWritten ==
  ASSUME CatalogInv, VariantsAssumption, NEW x \in Product, NEW v \in Variant,
         product[x].status # "none", UNCHANGED <<product, option, value>>,
         barcode' \in [Code -> [variant : Variant \cup {None},
                               primary : BOOLEAN]],
         OnePrimary',
         variant' \in [Variant -> VariantState],
         \A u \in Variant : u # v => variant'[u] = variant[u],
         variant[v].product \in {x, None},
         variant'[v].product = x, variant'[v].status # "none",
         variant'[v].status = "retired" => ~ variant'[v].default,
         product[x].type # "variable" => variant'[v].values = {},
         \A w \in variant'[v].values :
           /\ option[OptionOf[w]].product = x
           /\ \A z \in variant'[v].values : OptionOf[w] = OptionOf[z] => w = z,
         IndexesHold(variant'), ValidState(product[x], variant', x)
  PROVE  CatalogInv'
<1>1. RowsTyped' /\ RetiredIsNoDefault'
  BY DEF CatalogInv, RowsTyped, RetiredIsNoDefault
<1>2. OwnOptions'
  BY DEF CatalogInv, OwnOptions
<1>3. Anchored'
  <2>1. ASSUME NEW u \in Variant, variant'[u].status = "none"
        PROVE  variant'[u].product = None /\ variant'[u].values = {}
    BY <2>1 DEF CatalogInv, Anchored
  <2>2. ASSUME NEW o \in Option, option'[o].status = "none"
        PROVE  option'[o].product = None
    BY <2>2 DEF CatalogInv, Anchored
  <2>3. ASSUME NEW u \in Variant, variant'[u].status # "none"
        PROVE  /\ variant'[u].product \in Product
               /\ product'[variant'[u].product].status # "none"
               /\ product'[variant'[u].product].type # "variable" =>
                    variant'[u].values = {}
    <3>1. CASE u = v
      BY <3>1
    <3>2. CASE u # v
      BY <2>3, <3>2 DEF CatalogInv, Anchored
    <3> QED BY <3>1, <3>2
  <2> QED BY <2>1, <2>2, <2>3 DEF Anchored
<1>4. (IndexesHold(variant))'
  BY DEF IndexesHold
<1>5. EveryProductHasItsDefault'
  <2>1. HasItsDefault(product[x], variant', x)
    <3>1. ASSUME product[x].type # "variable", NEW u \in Variant,
                 variant'[u].product = x
          PROVE  variant'[u].values = {}
      BY <1>3, <3>1, VariantsAssumption DEF Anchored, VariantsAssumption
    <3> QED BY <3>1, ValidHasItsDefault
  <2>2. ASSUME NEW y \in Product, y # x, product[y].status # "none"
        PROVE  HasItsDefault(product[y], variant', y)
    <3>1. HasItsDefault(product[y], variant, y)
      BY <2>2, DefaultsByProduct DEF CatalogInv
    <3>2. variant[v].product # y /\ variant'[v].product # y
      BY <2>2, VariantsAssumption DEF VariantsAssumption
    <3> QED BY <3>1, <3>2, DefaultIsLocal
  <2>3. \A y \in Product : product[y].status # "none" =>
                              HasItsDefault(product[y], variant', y)
    BY <2>1, <2>2
  <2> QED BY <2>3 DEF EveryProductHasItsDefault, HasItsDefault
<1> QED BY <1>1, <1>2, <1>3, <1>4, <1>5 DEF CatalogInv

LEMMA CreateVariantPreserves ==
  ASSUME CatalogInv, VariantsAssumption, NEW x \in Product, NEW v \in Variant,
         NEW status \in Status, NEW default \in BOOLEAN,
         NEW values \in SUBSET Value,
         CreateVariant(x, v, status, default, values)
  PROVE  CatalogInv'
<1>1. /\ variant' \in [Variant -> VariantState]
      /\ variant[v].status = "none" /\ status # "retired"
      /\ variant'[v] = [status |-> status, product |-> x,
                        default |-> default, values |-> values]
      /\ \A u \in Variant : u # v => variant'[u] = variant[u]
  BY DEF CreateVariant, CatalogInv, RowsTyped, VariantState
<1>2. variant[v].product \in {x, None}
  BY <1>1 DEF CatalogInv, Anchored
<1>3. \A w \in values :
        /\ option[OptionOf[w]].product = x
        /\ \A z \in values : OptionOf[w] = OptionOf[z] => w = z
  BY DEF CreateVariant, Selectable
<1>4. status # "none"
  BY DEF Status
<1>5. /\ product[x].status # "none"
      /\ product[x].type # "variable" => values = {}
      /\ UNCHANGED <<product, option, value>>
      /\ IndexesHold(variant') /\ ValidState(product[x], variant', x)
      /\ MayIdentify(v)
  BY DEF CreateVariant
<1>6. /\ barcode' \in [Code -> [variant : Variant \cup {None},
                                primary : BOOLEAN]]
      /\ OnePrimary'
  BY <1>5, IdentifyKeepsOnePrimary
<1> QED BY <1>1, <1>2, <1>3, <1>4, <1>5, <1>6, OneVariantWritten

LEMMA PatchVariantPreserves ==
  ASSUME CatalogInv, VariantsAssumption, NEW v \in Variant,
         NEW status \in Status, NEW default \in BOOLEAN,
         PatchVariant(v, status, default)
  PROVE  CatalogInv'
<1> DEFINE x == variant[v].product
<1>1. /\ variant' \in [Variant -> VariantState]
      /\ variant[v].status # "none"
      /\ variant'[v].status = status
      /\ variant'[v].default = (default /\ status # "retired")
      /\ variant'[v].product = x /\ variant'[v].values = variant[v].values
      /\ \A u \in Variant : u # v => variant'[u] = variant[u]
  BY DEF PatchVariant, CatalogInv, RowsTyped, VariantState
<1>2. /\ x \in Product /\ product[x].status # "none"
      /\ product[x].type # "variable" => variant[v].values = {}
  BY <1>1 DEF CatalogInv, Anchored
<1>3. \A w \in variant[v].values :
        /\ option[OptionOf[w]].product = x
        /\ \A z \in variant[v].values : OptionOf[w] = OptionOf[z] => w = z
  BY DEF CatalogInv, OwnOptions
<1>4. status # "none"
  BY DEF Status
<1>5. /\ UNCHANGED <<product, option, value, barcode>>
      /\ IndexesHold(variant') /\ ValidState(product[x], variant', x)
  BY DEF PatchVariant
<1>6. /\ barcode' \in [Code -> [variant : Variant \cup {None},
                                primary : BOOLEAN]]
      /\ OnePrimary'
  BY <1>5 DEF CatalogInv, RowsTyped, OnePrimary
<1>7. /\ variant[v].product \in {x, None}
      /\ variant'[v].status # "none"
      /\ variant'[v].status = "retired" => ~ variant'[v].default
      /\ product[x].type # "variable" => variant'[v].values = {}
      /\ \A w \in variant'[v].values :
           /\ option[OptionOf[w]].product = x
           /\ \A z \in variant'[v].values : OptionOf[w] = OptionOf[z] => w = z
  BY <1>1, <1>2, <1>3, <1>4
<1> HIDE DEF x
<1> QED BY <1>1, <1>2, <1>5, <1>6, <1>7, OneVariantWritten

-----------------------------------------------------------------------------
(* Every command, and every state                                          *)

LEMMA InitEstablishesCatalogInv ==
  ASSUME Init PROVE CatalogInv
<1>1. RowsTyped
  BY DEF Init, RowsTyped, ProductState, VariantState, OptionState, NoVariant,
         NoBarcode
<1>2. RetiredIsNoDefault /\ OwnOptions /\ OnePrimary
  BY DEF Init, RetiredIsNoDefault, OwnOptions, OnePrimary, NoVariant, NoBarcode
<1>3. Anchored
  BY DEF Init, Anchored, NoVariant
<1>4. IndexesHold(variant)
  BY DEF Init, IndexesHold, NoVariant, Live
<1>5. EveryProductHasItsDefault
  BY DEF Init, EveryProductHasItsDefault
<1> QED BY <1>1, <1>2, <1>3, <1>4, <1>5 DEF CatalogInv

LEMMA NextPreservesCatalogInv ==
  ASSUME CatalogInv, VariantsAssumption, [Next]_vars
  PROVE  CatalogInv'
<1>1. CASE UNCHANGED vars
  <2>1. /\ value' \in [Value -> Status \cup {"none"}]
        /\ barcode' \in [Code -> [variant : Variant \cup {None},
                                  primary : BOOLEAN]]
        /\ OnePrimary'
    BY <1>1 DEF vars, CatalogInv, RowsTyped, OnePrimary
  <2> QED BY <1>1, <2>1, RowsUntouched DEF vars
<1>2. ASSUME NEW x \in Product, NEW status \in Status \cup {"draft"},
             \/ CreateEmptyProduct(x, status)
             \/ PatchProduct(x, status)
             \/ \E v \in Variant, type \in {"simple", "variable"} :
                  CreateProduct(x, type, status, v)
      PROVE  CatalogInv'
  BY <1>2, CreateEmptyProductPreserves, PatchProductPreserves,
     CreateProductPreserves
<1>3. ASSUME NEW v \in Variant, NEW status \in Status, NEW default \in BOOLEAN,
             \/ PatchVariant(v, status, default)
             \/ \E x \in Product, values \in SUBSET Value :
                  CreateVariant(x, v, status, default, values)
      PROVE  CatalogInv'
  BY <1>3, PatchVariantPreserves, CreateVariantPreserves
<1>4. ASSUME NEW o \in Option, NEW status \in Status,
             PatchOption(o, status) \/ \E x \in Product : CreateOption(x, o, status)
      PROVE  CatalogInv'
  BY <1>4, PatchOptionPreserves, CreateOptionPreserves
<1>5. ASSUME NEW w \in Value, NEW status \in Status,
             CreateValue(w, status) \/ PatchValue(w, status)
      PROVE  CatalogInv'
  BY <1>5, ValuesPreserve
<1>6. ASSUME NEW k \in Code,
             \/ RetireBarcode(k)
             \/ \E v \in Variant, primary \in BOOLEAN : CreateBarcode(k, v, primary)
      PROVE  CatalogInv'
  BY <1>6, RetireBarcodePreserves, CreateBarcodePreserves
<1> QED BY <1>1, <1>2, <1>3, <1>4, <1>5, <1>6 DEF Next

LEMMA CatalogInvHolds == Spec => []CatalogInv
<1>1. Init => CatalogInv
  BY InitEstablishesCatalogInv
<1>2. CatalogInv /\ [Next]_vars => CatalogInv'
  BY NextPreservesCatalogInv, VariantsAssumption
<1> QED BY <1>1, <1>2, PTL DEF Spec

(* Whatever commands run, in whatever order: rows are well formed, and in  *)
(* particular the option values of every variant are of options of its own *)
(* product, one of each, and no variant has two primary barcodes.          *)
THEOREM CatalogTypeCorrect == Spec => []VariantsTypeOK
<1>1. CatalogInv => VariantsTypeOK
  BY TypeParts DEF CatalogInv
<1> QED BY <1>1, CatalogInvHolds, PTL

(* createProduct, patchProduct, createVariant and patchVariant never leave *)
(* a product without its default variant, or with two of them.             *)
THEOREM DefaultsAreKept == Spec => []EveryProductHasItsDefault
<1>1. CatalogInv => EveryProductHasItsDefault
  BY DEF CatalogInv
<1> QED BY <1>1, CatalogInvHolds, PTL

(* patchOption and patchValue never retire an option, or a value, under an *)
(* active variant, whatever other commands have done before.               *)
THEOREM OptionsOutlive == Spec => OptionsOutliveTheirVariants
<1> DEFINE Outlives ==
      \A v \in Variant : \A w \in variant[v].values :
        variant[v].status = "active" /\ variant'[v].status = "active" /\ Alive(w)
          => Alive(w)'
<1>1. ASSUME CatalogInv, [Next]_vars PROVE [Outlives]_vars
  <2>1. SUFFICES ASSUME Next, NEW v \in Variant, NEW w \in variant[v].values,
                        variant[v].status = "active",
                        value[w] # "retired", option[OptionOf[w]].status # "retired"
                 PROVE  value'[w] # "retired" /\ option'[OptionOf[w]].status # "retired"
    BY <1>1 DEF Alive
  <2>2. w \in Value /\ OptionOf[w] \in Option
    BY <1>1, VariantsAssumption
       DEF CatalogInv, RowsTyped, VariantState, VariantsAssumption
  <2>3. CASE UNCHANGED <<option, value>>
    BY <2>1, <2>3
  <2>4. ASSUME NEW o \in Option, NEW status \in Status, PatchOption(o, status)
        PROVE  value'[w] # "retired" /\ option'[OptionOf[w]].status # "retired"
    <3>1. OptionOf[w] = o => status # "retired"
      BY <2>1, <2>2, <2>4 DEF PatchOption, ActivelyUsed, ValuesOf
    <3> QED BY <1>1, <2>1, <2>2, <2>4, <3>1 DEF PatchOption, CatalogInv, RowsTyped
  <2>5. ASSUME NEW o \in Option, NEW status \in Status, NEW x \in Product,
               CreateOption(x, o, status)
        PROVE  value'[w] # "retired" /\ option'[OptionOf[w]].status # "retired"
    BY <1>1, <2>1, <2>2, <2>5 DEF CreateOption, CatalogInv, RowsTyped
  <2>6. ASSUME NEW z \in Value, NEW status \in Status,
               CreateValue(z, status) \/ PatchValue(z, status)
        PROVE  value'[w] # "retired" /\ option'[OptionOf[w]].status # "retired"
    <3>1. /\ value' = [value EXCEPT ![z] = status]
          /\ option' = option
          /\ z = w => status # "retired"
      BY <2>1, <2>6 DEF CreateValue, PatchValue, ActivelyUsed
    <3> QED BY <1>1, <2>1, <2>2, <3>1 DEF CatalogInv, RowsTyped
  <2> QED BY <2>1, <2>3, <2>4, <2>5, <2>6
          DEF Next, CreateEmptyProduct, PatchProduct, CreateProduct, PatchVariant,
              CreateVariant, RetireBarcode, CreateBarcode
<1>2. CatalogInv /\ [Next]_vars => [Outlives]_vars
  BY <1>1
<1> QED BY <1>2, CatalogInvHolds, PTL DEF Spec, OptionsOutliveTheirVariants
=============================================================================
