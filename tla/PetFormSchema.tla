--------------------------- MODULE PetFormSchema ---------------------------
(***************************************************************************)
(* The add-pet form as it ships: database/seed-data/pet-form-schema.cjs.   *)
(* Nothing type-checks this file; the seeder writes it row by row, the     *)
(* catalogue service serves it and the answer service judges by it.  Only  *)
(* what one field relies on in another is kept: keys, kinds, the stored    *)
(* values (already in the form slug() gives them), Other, and the condition*)
(* under which a field is asked.                                           *)
(***************************************************************************)
EXTENDS Sequences, SequencesExt, FiniteSets

Always == [key |-> "", values |-> <<>>]

Field(key, kind, options, other, dependsOn) ==
    [key |-> key, kind |-> kind, options |-> options, other |-> other,
     dependsOn |-> dependsOn]

Ask(key, kind)         == Field(key, kind, <<>>, FALSE, Always)
Choose1(key, options)  == Field(key, "SELECT", options, FALSE, Always)
ChooseAny(key, options) == Field(key, "MULTI_SELECT", options, FALSE, Always)

OrOther(field)           == [field EXCEPT !.other = TRUE]
When(key, values, field) == [field EXCEPT !.dependsOn = [key |-> key, values |-> values]]

Yes == <<"true">>

----------------------------------------------------------------------------
(* Shared option sets *)

DOG_BREEDS ==
    <<"labrador-retriever", "golden-retriever", "german-shepherd", "rottweiler",
      "beagle", "pug", "pomeranian", "shih-tzu", "chihuahua", "dachshund",
      "siberian-husky", "great-dane", "doberman", "boxer", "french-bulldog",
      "cocker-spaniel", "indian-pariah-indie", "rajapalayam", "mudhol-hound",
      "chippiparai", "kombai">>

CAT_BREEDS ==
    <<"persian", "siamese", "maine-coon", "bengal", "ragdoll", "british-shorthair",
      "russian-blue", "scottish-fold", "abyssinian", "himalayan", "sphynx",
      "indian-domestic-shorthair">>

COLORS ==
    <<"black", "white", "brown", "golden", "cream", "grey", "fawn", "brindle",
      "tri-colour", "black-tan", "merle", "multi-colour">>

----------------------------------------------------------------------------
(* Common sections *)

COMMON_INFORMATION ==
    <<Ask("name", "TEXT"),
      Choose1("petType", <<"DOG", "CAT", "RABBIT", "HAMSTER", "GUINEA_PIG", "FISH", "BIRD">>),
      Choose1("gender", <<"male", "female">>),
      Ask("dateOfBirth", "DATE"),
      Ask("age", "TEXT"),
      ChooseAny("colors", COLORS),
      Choose1("size", <<"small", "medium", "large", "extra-large">>),
      Ask("weightKg", "NUMBER"),
      Ask("description", "TEXTAREA")>>

Vaccinated == <<"fully-vaccinated", "partially-vaccinated">>

\* Mutant: the certificate's condition spells the values as the labels do.
COMMON_HEALTH_BY_LABEL ==
    <<OrOther(Choose1("healthStatus",
                      <<"healthy", "under-treatment", "special-care-required">>)),
      Choose1("vaccinationStatus", Vaccinated \o <<"not-vaccinated", "not-applicable">>),
      When("vaccinationStatus", Vaccinated, Ask("lastVaccinationDate", "DATE")),
      When("vaccinationStatus", <<"Fully Vaccinated">>, Ask("vaccinationCertificate", "FILE")),
      Ask("hasMedicalCondition", "BOOLEAN")>>

COMMON_HEALTH ==
    <<OrOther(Choose1("healthStatus",
                      <<"healthy", "under-treatment", "special-care-required">>)),
      Choose1("vaccinationStatus", Vaccinated \o <<"not-vaccinated", "not-applicable">>),
      When("vaccinationStatus", Vaccinated, Ask("lastVaccinationDate", "DATE")),
      When("vaccinationStatus", Vaccinated, Ask("vaccinationCertificate", "FILE")),
      Ask("hasMedicalCondition", "BOOLEAN"),
      When("hasMedicalCondition", Yes, OrOther(Choose1("medicalCondition",
               <<"allergies", "skin-condition", "eye-condition", "ear-infection",
                 "hip-dysplasia", "digestive-issue", "respiratory-issue",
                 "recovering-from-injury">>))),
      Ask("healthNotes", "TEXTAREA")>>

COMMON_AVAILABILITY ==
    <<Ask("priceInInr", "NUMBER"), Choose1("priceType", <<"fixed", "negotiable">>)>>

COMMON_MEDIA ==
    <<Ask("mainPhoto", "MEDIA"), Ask("additionalPhotos", "MEDIA"), Ask("video", "MEDIA")>>

----------------------------------------------------------------------------
(* Sections of one animal *)

\* What is asked of a parent once its details are there.
Parent(available, name, breed, color) ==
    <<Ask(available, "BOOLEAN"),
      When(available, Yes, Ask(name, "TEXT")),
      When(available, Yes, OrOther(Choose1(breed, DOG_BREEDS))),
      When(available, Yes, Choose1(color, COLORS))>>

DOG_CATEGORY ==
    <<OrOther(Choose1("breed", DOG_BREEDS)),
      Choose1("coatType",
          <<"short", "medium", "long", "curly", "double-coat", "wire-coat", "hairless">>),
      ChooseAny("temperament",
          <<"friendly", "playful", "calm", "active", "energetic", "protective", "social",
            "independent", "good-with-children", "good-with-other-pets", "trained">>),
      Choose1("trainingLevel",
          <<"not-trained", "basic-training", "obedience-trained", "advanced-trained",
            "house-trained">>),
      OrOther(ChooseAny("commandsKnown", <<"sit", "stay", "come", "down", "heel", "fetch">>)),
      Ask("pedigreeAvailable", "BOOLEAN"),
      When("pedigreeAvailable", Yes, Ask("pedigreeCertificate", "FILE")),
      When("pedigreeAvailable", Yes, Ask("registrationNumber", "TEXT"))>>
    \o Parent("fatherInfoAvailable", "fatherName", "fatherBreed", "fatherColor")
    \o Parent("motherInfoAvailable", "motherName", "motherBreed", "motherColor")

CAT_CATEGORY ==
    <<OrOther(Choose1("breed", CAT_BREEDS)),
      Choose1("coatType", <<"short", "medium", "long", "hairless">>),
      ChooseAny("temperament",
          <<"friendly", "playful", "calm", "active", "affectionate", "independent",
            "good-with-children", "good-with-other-pets">>),
      Ask("isLitterTrained", "BOOLEAN")>>

\* The sections in the order the seeder writes them; "" is the null petType.
PET_FORM_SCHEMA ==
    <<[petType |-> "",    section |-> "INFORMATION",  fields |-> COMMON_INFORMATION],
      [petType |-> "",    section |-> "HEALTH",       fields |-> COMMON_HEALTH],
      [petType |-> "",    section |-> "AVAILABILITY", fields |-> COMMON_AVAILABILITY],
      [petType |-> "",    section |-> "MEDIA",        fields |-> COMMON_MEDIA],
      [petType |-> "DOG", section |-> "CATEGORY",     fields |-> DOG_CATEGORY],
      [petType |-> "CAT", section |-> "CATEGORY",     fields |-> CAT_CATEGORY]>>

----------------------------------------------------------------------------
(* The form of one animal *)

\* findSchema: the fields of a section that are common or that animal's own.
FieldsIn(petType, section) ==
    FlattenSeq([i \in DOMAIN PET_FORM_SCHEMA |->
        IF /\ PET_FORM_SCHEMA[i].section = section
           /\ PET_FORM_SCHEMA[i].petType \in {"", petType}
        THEN PET_FORM_SCHEMA[i].fields ELSE <<>>])

\* getFormSchema: the animal's own questions and the price are folded into the
\* first of the three steps the app shows.
FormOf(petType) ==
    FieldsIn(petType, "INFORMATION") \o FieldsIn(petType, "CATEGORY")
        \o FieldsIn(petType, "AVAILABILITY") \o FieldsIn(petType, "HEALTH")
        \o FieldsIn(petType, "MEDIA")

\* What the app may compare a condition with: answers are compared as strings.
Answerable(field) ==
    IF field.kind = "BOOLEAN" THEN {"true", "false"} ELSE ToSet(field.options)

\* COLUMN_KEYS of the listing service; the answers it keeps in columns.
COLUMN_KEYS ==
    {"name", "petType", "gender", "dateOfBirth", "age", "colors", "size", "weightKg",
     "description", "breed", "breedOther", "priceInInr", "priceType"}

----------------------------------------------------------------------------
(* Property *)

\* The form of every animal can be seeded, filled in and saved: no key is asked
\* twice (an answer map has one slot for it, and the index refuses a second),
\* no value is offered twice by a field, none is the Other the app adds itself,
\* a condition names a field asked earlier and an answer that field can have,
\* and every column of a listing but the free text beside breed is asked for.
SchemaIsSound ==
    \A petType \in {"DOG", "CAT", "FISH"} :
        LET form == FormOf(petType) IN
        /\ \A i, j \in DOMAIN form : form[i].key = form[j].key => i = j
        /\ \A i \in DOMAIN form :
              /\ \A m, n \in DOMAIN form[i].options :
                    form[i].options[m] = form[i].options[n] => m = n
              /\ ToSet(form[i].options) \cap {"other", "__other__"} = {}
              /\ form[i].dependsOn # Always =>
                    \E j \in 1 .. i - 1 :
                        /\ form[j].key = form[i].dependsOn.key
                        /\ ToSet(form[i].dependsOn.values) \subseteq Answerable(form[j])
        /\ COLUMN_KEYS \ {"breedOther", "breed"} \subseteq {form[i].key : i \in DOMAIN form}

=============================================================================
