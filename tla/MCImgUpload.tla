------------------------------ MODULE MCImgUpload ------------------------------
(* Small instances of ImgUpload: a boot image of 5 cells and a wallpaper of 3, *)
(* in chunks of 2 and sectors of 4, so that as in the build the boot image is  *)
(* a whole number of neither, and the last sector is the boot counter's.       *)
EXTENDS ImgUpload
==============================================================================
